---- MODULE Spec2Model ----
(***************************************************************************)
(* Model of the Voiceflow documentation engine (voiceflow_mcp_server.py):  *)
(* the document cache, the markdown-first fetch with its retry loop, the   *)
(* markdown processing, the embedding index with its two search paths,     *)
(* question answering, the budgeted warm-up crawl and the handler of the   *)
(* tool calls.                                                             *)
(*                                                                         *)
(* Text (URLs, content types, bodies) is a sequence of one-character       *)
(* strings.  Optional[X] is a sequence of length at most one: <<>> is      *)
(* None and <<x>> is the value x.  One step of the model is the code that  *)
(* runs between two suspension points (await) of the single event loop.    *)
(***************************************************************************)
EXTENDS Integers, Sequences, FiniteSets, TLC

VARIABLES
    cache,       \* DocumentCache.cache: the (key, value) items, in dict insertion order
    embeddings,  \* DocumentCache.embeddings: None or the array, one row per indexed chunk
    documents,   \* DocumentCache.documents: the metadata of the indexed chunks
    embedding_model, \* VoiceflowMCP.embedding_model: None or the loaded model
    pc,          \* where the running operation is suspended ("idle": none running)
    op,          \* the public operation that is running or ran last
    args,        \* the arguments op was called with
    path,        \* the scorer that answered the last search that returned:
                 \* "lexical" (line 232), "vector" (lines 234-242), "none" before
    url,         \* fetch_markdown_content: parameter url
    attempt,     \* _get: loop variable attempt
    r,           \* fetch_markdown_content: local r, what _get(md_url) returned
    body,        \* fetch_markdown_content: local body (None or the accepted text)
    final_url,   \* fetch_markdown_content: local final_url
    sitemap,     \* warmup: the list fetch_sitemap returned
    urls,        \* warmup: the reordered candidate list
    pos,         \* warmup: index in urls of the element the for loop takes next
    seen,        \* warmup: local seen
    limit,       \* warmup: parameter limit
    start_len,   \* number of stored documents when the running warmup was called
    ret,         \* outcome of the public operation op: Running until it has ended
    gets,        \* GET requests issued so far by the running fetch call
    lastStatus,  \* status code of the last response the running fetch call received
    waits,       \* backoff sleeps of the running fetch call, in half time-units
    last,        \* the fetch call that ended last: its url, its outcome, the call sites
                 \* that requested, what its last _get returned and for which URL
    suspended,   \* the second task of the event loop, the one that is not running:
                 \* its pc, op, args, ret and the locals of its fetch call
    tool         \* handle_call_tool: the tool call that is handled or was handled
                 \* last: its name, its arguments, how far it is, its response

fetch_locals == <<url, attempt, r, body, final_url, gets, lastStatus, waits>>

warmup_locals == <<sitemap, urls, pos, seen, limit, start_len>>

index == <<embeddings, documents, embedding_model>>

vars == <<cache, index, pc, op, args, path, ret, last, fetch_locals, warmup_locals, suspended, tool>>

(***************************************************************************)
(* Bounds of the model                                                     *)
(***************************************************************************)
MaxLimit == 2

\* The longest markdown text handed to chunk_markdown, in lines
MaxLines == 4

(***************************************************************************)
(* Text operations of Python's str                                         *)
(***************************************************************************)
startswith(s, p) ==
    Len(s) >= Len(p) /\ SubSeq(s, 1, Len(p)) = p

endswith(s, p) ==
    Len(s) >= Len(p) /\ SubSeq(s, Len(s) - Len(p) + 1, Len(s)) = p

contains(s, p) ==
    \E k \in 1..(Len(s) - Len(p) + 1) : SubSeq(s, k, k + Len(p) - 1) = p

UpperChars ==
    <<"A","B","C","D","E","F","G","H","I","J","K","L","M","N","O","P","Q","R","S","T","U","V","W","X","Y","Z">>

LowerChars ==
    <<"a","b","c","d","e","f","g","h","i","j","k","l","m","n","o","p","q","r","s","t","u","v","w","x","y","z">>

lower(s) ==
    [k \in 1..Len(s) |->
        IF \E j \in 1..Len(UpperChars) : UpperChars[j] = s[k]
        THEN LowerChars[CHOOSE j \in 1..Len(UpperChars) : UpperChars[j] = s[k]]
        ELSE s[k]]

truthy_never(opt) ==
    FALSE

truthy(opt) ==
    opt # <<>>

(***************************************************************************)
(* Literals of the source                                                  *)
(***************************************************************************)
base_url ==
    <<"h","t","t","p","s",":","/","/","d","o","c","s",".","v","o","i","c","e","f","l","o","w",".","c","o","m">>

ReferencePrefix ==
    base_url \o <<"/","r","e","f","e","r","e","n","c","e">>

DocsPrefix ==
    base_url \o <<"/","d","o","c","s">>

ChangelogMark ==
    <<"/","c","h","a","n","g","e","l","o","g">>

MdSuffix ==
    <<".","m","d">>

MarkdownWord ==
    <<"m","a","r","k","d","o","w","n">>

TextPlainWord ==
    <<"t","e","x","t","/","p","l","a","i","n">>

HeadingMark ==
    <<"#"," ">>

\* U+0060, which a TLA+ string cannot hold, is the character Backtick
Backtick ==
    "BACKTICK"

FenceMark ==
    <<Backtick, Backtick, Backtick>>

ModelName ==
    "all-MiniLM-L6-v2"

MaxAttempts == 4

(***************************************************************************)
(* The inputs: the URLs a caller or a sitemap can name, and what the       *)
(* documentation server can answer                                         *)
(***************************************************************************)
UrlReference ==
    base_url \o <<"/","r","e","f","e","r","e","n","c","e","/","a">>

UrlDocs ==
    base_url \o <<"/","d","o","c","s","/","b">>

UrlChangelog ==
    base_url \o <<"/","c","h","a","n","g","e","l","o","g","/","c">>

UrlOtherMd ==
    base_url \o <<"/","x",".","m","d">>

PageUrls ==
    {UrlReference, UrlOtherMd}

WarmUrls ==
    {UrlReference, UrlDocs, UrlChangelog}

Statuses ==
    {200, 304, 404, 429, 500, 599}

ContentTypes ==
    { <<>>,
      << <<"t","e","x","t","/","h","t","m","l">> >>,
      << <<"T","e","x","t","/","M","a","r","k","d","o","w","n">> >>,
      << <<"t","e","x","t","/","p","l","a","i","n",";"," ","c","h","a","r","s","e","t","=","u","t","f","-","8">> >> }

BodyHtml ==
    <<"<","p",">">>

BodyHeading ==
    <<"#"," ","T">>

BodyFence ==
    <<"a", Backtick, Backtick, Backtick>>

Bodies ==
    {BodyHtml, BodyHeading, BodyFence}

BodyTwice ==
    <<"#"," ","T","\n","t">>

BodySections ==
    <<"#"," ","T","\n","#","#"," ","S","\n","T">>

Responses ==
    [status : {200}, content_type : ContentTypes, text : Bodies]
    \cup [status : Statuses \ {200},
          content_type : { << <<"t","e","x","t","/","h","t","m","l">> >> },
          text : {BodyHtml}]

\* A documentation server that answers a page, a miss or a rate limit
WarmResponses ==
    { resp \in Responses :
        /\ resp.status \in {200, 404, 429}
        /\ resp.content_type = << <<"t","e","x","t","/","h","t","m","l">> >>
        /\ resp.status = 200 => resp.text = BodyHeading }

\* A documentation server that answers a page, a miss, a rate limit or a
\* server error
LiveResponses ==
    WarmResponses \cup { resp \in Responses : resp.status = 500 }

LiveUrls ==
    {UrlReference, UrlDocs}

\* A documentation server whose pages differ, and that has a page or not
EngineResponses ==
    [status : {200},
     content_type : { << <<"t","e","x","t","/","m","a","r","k","d","o","w","n">> >> },
     text : {BodyTwice, BodySections}]
    \cup { resp \in Responses : resp.status = 404 }

EngineUrls ==
    {UrlReference, UrlDocs}

\* A documentation server whose page changes between two requests, or is
\* missing
OverlapResponses ==
    [status : {200},
     content_type : { << <<"t","e","x","t","/","m","a","r","k","d","o","w","n">> >> },
     text : {BodyHeading, BodyTwice}]
    \cup { resp \in Responses : resp.status = 404 }

OverlapUrls ==
    {UrlReference, UrlDocs}

\* The parsed document whose elements are <url> elements, entry k being
\* the <loc> children of the k-th: none, or one with its text
urlset(entries) ==
    [k \in 1..Len(entries) |-> [tag |-> "url", locs |-> entries[k]]]

EngineSitemaps ==
    [kind : {"xml"}, root : { urlset(<< <<UrlDocs>>, <<UrlReference>> >>) }]

Queries ==
    { <<"T">>, <<"S">> }

Limits ==
    {0, 1, 5}

\* A sitemap of five /reference and five /docs pages, the /docs page first
\* in each pair
PageNames ==
    <<"1", "2", "3", "4", "5">>

ReferencePages ==
    [k \in 1..Len(PageNames) |-> ReferencePrefix \o <<"/", PageNames[k]>>]

DocsPages ==
    [k \in 1..Len(PageNames) |-> DocsPrefix \o <<"/", PageNames[k]>>]

PairedSitemap ==
    [k \in 1..(2 * Len(PageNames)) |->
        IF k % 2 = 1 THEN << DocsPages[(k + 1) \div 2] >> ELSE << ReferencePages[k \div 2] >>]

OrderSitemaps ==
    [kind : {"xml"},
     root : { urlset(PairedSitemap),
              urlset(<< <<UrlOtherMd>>, <<UrlReference>> >>),
              urlset(<< <<UrlDocs>>, <<UrlReference>> >>) }]

\* A documentation server that has every page as markdown
OrderResponses ==
    [status : {200},
     content_type : { << <<"t","e","x","t","/","m","a","r","k","d","o","w","n">> >> },
     text : {BodyHeading}]

OrderUrls ==
    {UrlReference}

\* The parsed sitemap: the elements of the sitemap namespace below the
\* root that hold <loc> children, in document order, each with its tag and
\* the texts of its <loc> children (<<>> for a <loc> without text). The
\* second is what a sitemap that also lists a sitemap file and an alternate
\* location parses to.
SitemapDocs ==
    { <<>>,
      << [tag |-> "sitemap", locs |-> <<UrlDocs>>],
         [tag |-> "url", locs |-> <<UrlChangelog>>],
         [tag |-> "url", locs |-> <<UrlReference, UrlDocs>>] >>,
      << [tag |-> "url", locs |-> <<UrlDocs>>],
         [tag |-> "url", locs |-> << <<>> >>],
         [tag |-> "url", locs |-> <<UrlChangelog>>],
         [tag |-> "url", locs |-> <<UrlReference>>] >> }

SitemapOutcomes ==
    [kind : {"network_error", "http_error", "parse_error"}, root : { <<>> }]
    \cup [kind : {"xml"}, root : SitemapDocs]

(***************************************************************************)
(* httpx.Response                                                          *)
(***************************************************************************)
is_success(status) ==
    200 <= status /\ status < 300

retryable_client_errors(status) ==
    status >= 400

retryable(status) ==
    status = 429 \/ (500 <= status /\ status < 600)

(***************************************************************************)
(* More of Python's str and re, as the markdown processing uses them       *)
(***************************************************************************)
Whitespace ==
    {" ", "\t", "\n", "\r", "\f"}

LineBreaks ==
    {"\n", "\r", "\f"}

isspace(c) ==
    c \in Whitespace

RECURSIVE lstrip(_)
lstrip(s) ==
    IF s # <<>> /\ isspace(Head(s)) THEN lstrip(Tail(s)) ELSE s

RECURSIVE rstrip(_)
rstrip(s) ==
    IF s # <<>> /\ isspace(s[Len(s)]) THEN rstrip(SubSeq(s, 1, Len(s) - 1)) ELSE s

strip(s) ==
    rstrip(lstrip(s))

\* s[n:]
drop(s, n) ==
    SubSeq(s, n + 1, Len(s))

\* s[:n]
take(s, n) ==
    SubSeq(s, 1, IF n < Len(s) THEN n ELSE Len(s))

\* s.find(p) + 1, for a p that occurs in s
find(s, p) ==
    CHOOSE k \in 1..(Len(s) - Len(p) + 1) :
        /\ SubSeq(s, k, k + Len(p) - 1) = p
        /\ \A j \in 1..(k - 1) : SubSeq(s, j, j + Len(p) - 1) # p

\* s.split(sep, maxsplit); maxsplit = -1 splits at every sep
RECURSIVE split(_, _, _)
split(s, sep, maxsplit) ==
    IF maxsplit # 0 /\ contains(s, sep)
    THEN LET k == find(s, sep)
         IN <<SubSeq(s, 1, k - 1)>> \o split(drop(s, k + Len(sep) - 1), sep, maxsplit - 1)
    ELSE <<s>>

RECURSIVE splitlines(_)
splitlines(s) ==
    IF s = <<>> THEN <<>>
    ELSE IF \E k \in 1..Len(s) : s[k] \in LineBreaks
    THEN LET k == CHOOSE k \in 1..Len(s) :
                      s[k] \in LineBreaks /\ \A j \in 1..(k - 1) : s[j] \notin LineBreaks
             n == IF s[k] = "\r" /\ k < Len(s) /\ s[k + 1] = "\n" THEN 2 ELSE 1
         IN <<SubSeq(s, 1, k - 1)>> \o splitlines(drop(s, k + n - 1))
    ELSE <<s>>

RECURSIVE join(_, _)
join(parts, sep) ==
    IF parts = <<>> THEN <<>>
    ELSE IF Len(parts) = 1 THEN parts[1]
    ELSE parts[1] \o sep \o join(Tail(parts), sep)

Newline ==
    <<"\n">>

(***************************************************************************)
(* extract_title, extract_description, clean_markdown, chunk_markdown      *)
(***************************************************************************)
TitleMark ==
    <<"t","i","t","l","e",":">>

DescriptionMark ==
    <<"d","e","s","c","r","i","p","t","i","o","n",":">>

SubheadingMark ==
    <<"#","#"," ">>

FrontmatterMark ==
    <<"-","-","-">>

Untitled ==
    <<"U","n","t","i","t","l","e","d">>

Ellipsis ==
    <<".",".",".">>

TitleLines == 10

DescriptionLines == 20

ParagraphLines == 4

DescriptionLen == 200

extract_title(content) ==
    LET lines == take(split(content, Newline, -1), TitleLines)
        hit(k) == startswith(lines[k], HeadingMark) \/ startswith(lines[k], TitleMark)
    IN IF \E k \in 1..Len(lines) : hit(k)
       THEN LET k == CHOOSE k \in 1..Len(lines) : hit(k) /\ \A j \in 1..(k - 1) : ~hit(j)
            IN IF startswith(lines[k], HeadingMark)
               THEN strip(drop(lines[k], Len(HeadingMark)))
               ELSE strip(drop(lines[k], Len(TitleMark)))
       ELSE Untitled

\* The loop of extract_description from the line of index k on (k = i + 1).
RECURSIVE description_from(_, _)
description_from(lines, k) ==
    LET last_j == IF k + ParagraphLines < Len(lines) THEN k + ParagraphLines ELSE Len(lines)
        para(j) == strip(lines[j]) # <<>> /\ ~startswith(lines[j], <<"#">>)
    IN IF k > Len(lines) \/ k > DescriptionLines THEN <<>>
       ELSE IF startswith(lines[k], DescriptionMark)
       THEN strip(drop(lines[k], Len(DescriptionMark)))
       ELSE IF startswith(lines[k], SubheadingMark) /\ k > 1
               /\ \E j \in (k + 1)..last_j : para(j)
       THEN LET j == CHOOSE j \in (k + 1)..last_j :
                         para(j) /\ \A h \in (k + 1)..(j - 1) : ~para(h)
            IN take(strip(lines[j]), DescriptionLen) \o Ellipsis
       ELSE description_from(lines, k + 1)

extract_description(content) ==
    description_from(split(content, Newline, -1), 1)

\* re.sub(r'\n\s*\n\s*\n', '\n\n', s)
RECURSIVE collapse_blank_lines(_)
collapse_blank_lines(s) ==
    IF s = <<>> THEN <<>>
    ELSE LET run == lstrip(s)
             n == Len(s) - Len(run)
             nls == { k \in 1..n : s[k] = "\n" }
         IN IF s[1] = "\n" /\ Cardinality(nls) >= 3
            THEN LET e == CHOOSE k \in nls : \A j \in nls : j <= k
                 IN <<"\n", "\n">> \o collapse_blank_lines(drop(s, e))
            ELSE <<s[1]>> \o collapse_blank_lines(Tail(s))

clean_markdown(content) ==
    LET parts == split(content, FrontmatterMark, 2)
        c == IF startswith(content, FrontmatterMark) /\ Len(parts) >= 3
             THEN parts[3]
             ELSE content
    IN strip(collapse_blank_lines(c))

\* re.match(r"^#{1,3}\s", ln)
is_heading(ln) ==
    \E n \in 1..3 :
        /\ Len(ln) > n
        /\ \A k \in 1..n : ln[k] = "#"
        /\ isspace(ln[n + 1])

\* re.sub(r"^#{1,3}\s+", "", ln).strip(), for a line that is a heading
heading_text_with_marker(ln) ==
    strip(ln)

heading_text(ln) ==
    LET n == CHOOSE n \in 1..3 :
                 /\ Len(ln) > n
                 /\ \A k \in 1..n : ln[k] = "#"
                 /\ isspace(ln[n + 1])
    IN strip(lstrip(drop(ln, n)))

flush_first_line(st) ==
    LET text == strip(IF st.buf = <<>> THEN <<>> ELSE Head(st.buf))
    IN IF st.buf = <<>> THEN st
       ELSE [st EXCEPT
               !.chunks = IF text # <<>>
                          THEN Append(@, [heading |-> st.current_h, markdown |-> text])
                          ELSE @,
               !.buf = <<>>]

flush(st) ==
    LET text == strip(join(st.buf, Newline))
    IN IF st.buf = <<>> THEN st
       ELSE [st EXCEPT
               !.chunks = IF text # <<>>
                          THEN Append(@, [heading |-> st.current_h, markdown |-> text])
                          ELSE @,
               !.buf = <<>>]

RECURSIVE chunk_lines_unfenced(_, _)
chunk_lines_unfenced(lines, st) ==
    IF lines = <<>> THEN flush(st).chunks
    ELSE LET ln == Head(lines)
         IN IF is_heading(ln)
            THEN chunk_lines_unfenced(Tail(lines),
                     [flush(st) EXCEPT !.current_h = heading_text(ln), !.buf = <<ln>>])
            ELSE chunk_lines_unfenced(Tail(lines), [st EXCEPT !.buf = Append(@, ln)])

RECURSIVE chunk_lines(_, _)
chunk_lines(lines, st) ==
    IF lines = <<>> THEN flush(st).chunks
    ELSE LET ln == Head(lines)
         IN IF startswith(strip(ln), FenceMark)
            THEN chunk_lines(Tail(lines),
                     [st EXCEPT !.in_code = ~@, !.buf = Append(@, ln)])
            ELSE IF ~st.in_code /\ is_heading(ln)
            THEN chunk_lines(Tail(lines),
                     [flush(st) EXCEPT !.current_h = heading_text(ln), !.buf = <<ln>>])
            ELSE chunk_lines(Tail(lines), [st EXCEPT !.buf = Append(@, ln)])

chunk_markdown(md) ==
    chunk_lines(splitlines(md),
                [chunks |-> <<>>, buf |-> <<>>, current_h |-> <<>>, in_code |-> FALSE])

\* The cleaned text of the scenario of one heading and its body
MarkdownHeadingBody ==
    <<"#"," ","H","e","a","d","i","n","g","\n","B","o","d","y"," ","t","e","x","t">>

\* Texts with a heading that has no text: last of the text, before its
\* body, and between a text and a heading
MarkdownBareHeadings ==
    { <<"#"," ","T","\n","#"," ">>,
      <<"#"," ","\n","t">>,
      <<"t","\n","#"," ","\n","\n","#","#","#"," ","S">> }

\* The texts handed to chunk_markdown: up to MaxLines lines, each a blank
\* line, a heading, plain text, a fence or an indented fence with a
\* language; the texts with a heading without text; the text of the scenario
MarkdownLines ==
    { <<>>,
      <<"#"," ","T">>,
      <<"#","#","#"," ","S">>,
      <<"t">>,
      FenceMark,
      <<" ">> \o FenceMark \o <<"t">> }

Markdowns ==
    { join(lines, Newline) :
        lines \in UNION { [1..n -> MarkdownLines] : n \in 0..MaxLines } }
    \cup MarkdownBareHeadings \cup {MarkdownHeadingBody}

(***************************************************************************)
(* DocumentCache                                                           *)
(***************************************************************************)
cache_keys(c) ==
    { c[k].key : k \in 1..Len(c) }

cache_get(c, u) ==
    IF u \in cache_keys(c)
    THEN << c[CHOOSE k \in 1..Len(c) : c[k].key = u].value >>
    ELSE <<>>

cache_set_dropped(c, u, content) ==
    c

cache_set_alone(c, u, content) ==
    << [key |-> u, value |-> content] >>

cache_set(c, u, content) ==
    IF u \in cache_keys(c)
    THEN [k \in 1..Len(c) |-> IF c[k].key = u THEN [key |-> u, value |-> content] ELSE c[k]]
    ELSE Append(c, [key |-> u, value |-> content])

(***************************************************************************)
(* handle_call_tool: the tool call and its response                        *)
(***************************************************************************)
\* An argument map without an entry
NoArguments ==
    [k \in {} |-> k]

NoResponse ==
    [kind |-> "none", form |-> "none", value |-> <<>>]

\* No tool call has arrived yet.
NoCall ==
    [name |-> <<>>, arguments |-> NoArguments, stage |-> "none", response |-> NoResponse]

(***************************************************************************)
(* fetch_markdown_content                                                  *)
(***************************************************************************)
Return(value) ==
    [kind |-> "return", value |-> value]

Raised ==
    [kind |-> "raise", value |-> <<>>]

Running ==
    [kind |-> "running", value |-> <<>>]

NoArgs ==
    [none |-> TRUE]

md_url(u) ==
    IF endswith(u, MdSuffix) THEN u ELSE u \o MdSuffix

accepts_no_fence(resp) ==
    LET ctype == lower(IF resp.content_type = <<>> THEN <<>> ELSE resp.content_type[1])
    IN \/ contains(ctype, MarkdownWord)
       \/ contains(ctype, TextPlainWord)
       \/ startswith(resp.text, HeadingMark)

accepts(resp) ==
    LET ctype == lower(IF resp.content_type = <<>> THEN <<>> ELSE resp.content_type[1])
    IN \/ contains(ctype, MarkdownWord)
       \/ contains(ctype, TextPlainWord)
       \/ startswith(resp.text, HeadingMark)
       \/ contains(resp.text, FenceMark)

doc_data(u, furl, text) ==
    [url |-> u,
     markdown_url |-> furl,
     title |-> extract_title(text),
     description |-> extract_description(text),
     content |-> clean_markdown(text),
     raw_content |-> text,
     chunks |-> chunk_markdown(clean_markdown(text))]

sites_of(g) ==
    { g[k].site : k \in 1..Len(g) }

\* The locals of a fetch call that has returned are gone.
fetch_locals_dropped ==
    /\ url' = <<>>
    /\ attempt' = 0
    /\ r' = <<>>
    /\ body' = <<>>
    /\ final_url' = <<>>
    /\ gets' = <<>>
    /\ lastStatus' = 0
    /\ waits' = <<>>

warmup_locals_dropped ==
    /\ sitemap' = <<>>
    /\ urls' = <<>>
    /\ pos' = 1
    /\ seen' = 0
    /\ limit' = 0
    /\ start_len' = 0

\* What a task of the event loop keeps while it is suspended at an await
context ==
    [pc |-> pc, op |-> op, args |-> args, ret |-> ret, url |-> url,
     attempt |-> attempt, r |-> r, body |-> body, final_url |-> final_url,
     gets |-> gets, lastStatus |-> lastStatus, waits |-> waits]

\* A task that runs no operation
NoTask ==
    [pc |-> "idle", op |-> "none", args |-> NoArgs, ret |-> Return(<<>>), url |-> <<>>,
     attempt |-> 0, r |-> <<>>, body |-> <<>>, final_url |-> <<>>,
     gets |-> <<>>, lastStatus |-> 0, waits |-> <<>>]

\* The running task is suspended at its await (lines 104, 106: the request
\* and the backoff sleep of _get) or has ended, and the event loop runs the
\* other task, which goes on where it was or, idle, takes the next call.
\* The tasks share the cache and the index.
switch ==
    /\ pc \in {"idle", "get_md", "sleep_md", "get_orig", "sleep_orig"}
    /\ suspended.pc \in {"idle", "get_md", "sleep_md", "get_orig", "sleep_orig"}
    /\ op # "warmup" /\ suspended.op # "warmup"
    /\ suspended' = context
    /\ pc' = suspended.pc
    /\ op' = suspended.op
    /\ args' = suspended.args
    /\ ret' = suspended.ret
    /\ url' = suspended.url
    /\ attempt' = suspended.attempt
    /\ r' = suspended.r
    /\ body' = suspended.body
    /\ final_url' = suspended.final_url
    /\ gets' = suspended.gets
    /\ lastStatus' = suspended.lastStatus
    /\ waits' = suspended.waits
    /\ UNCHANGED <<cache, index, path, last, warmup_locals>>
    /\ UNCHANGED tool

\* The fetch call on u returns result to its caller, which runs on to its
\* next suspension point: warmup (lines 314-315) counts the document and
\* goes to the next candidate, get_documentation_page returns the result.
fetch_return_counting_misses(u, result, g, got) ==
    /\ last' = [url |-> u, ret |-> Return(result), sites |-> sites_of(g),
                r |-> got, from |-> IF g = <<>> THEN <<>> ELSE g[Len(g)].u]
    /\ fetch_locals_dropped
    /\ IF op' = "warmup"
       THEN /\ seen' = seen + 1
            /\ pos' = pos + 1
            /\ pc' = "w_loop"
            /\ ret' = ret
            /\ UNCHANGED <<sitemap, urls, limit, start_len>>
       ELSE /\ pc' = "idle"
            /\ ret' = Return(result)
            /\ UNCHANGED warmup_locals

fetch_return_retrying_miss(u, result, g, got) ==
    /\ last' = [url |-> u, ret |-> Return(result), sites |-> sites_of(g),
                r |-> got, from |-> IF g = <<>> THEN <<>> ELSE g[Len(g)].u]
    /\ fetch_locals_dropped
    /\ IF op' = "warmup"
       THEN /\ seen' = IF truthy(result) THEN seen + 1 ELSE seen
            /\ pos' = IF truthy(result) THEN pos + 1 ELSE pos
            /\ pc' = "w_loop"
            /\ ret' = ret
            /\ UNCHANGED <<sitemap, urls, limit, start_len>>
       ELSE /\ pc' = "idle"
            /\ ret' = Return(result)
            /\ UNCHANGED warmup_locals

fetch_return(u, result, g, got) ==
    /\ last' = [url |-> u, ret |-> Return(result), sites |-> sites_of(g),
                r |-> got, from |-> IF g = <<>> THEN <<>> ELSE g[Len(g)].u]
    /\ fetch_locals_dropped
    /\ IF op' = "warmup"
       THEN /\ seen' = IF truthy(result) THEN seen + 1 ELSE seen
            /\ pos' = pos + 1
            /\ pc' = "w_loop"
            /\ ret' = ret
            /\ UNCHANGED <<sitemap, urls, limit, start_len>>
       ELSE /\ pc' = "idle"
            /\ ret' = Return(result)
            /\ UNCHANGED warmup_locals

\* An exception raised by http_client.get leaves _get, fetch_markdown_content
\* and warmup, none of which catches it.
fetch_raise(u, g) ==
    /\ last' = [url |-> u, ret |-> Raised, sites |-> sites_of(g),
                r |-> <<>>, from |-> g[Len(g)].u]
    /\ fetch_locals_dropped
    /\ warmup_locals_dropped
    /\ pc' = "idle"
    /\ ret' = Raised

\* Lines 139-161 with a body: build the document, store it, return it.
store_and_return(text, furl, g, got) ==
    LET doc == doc_data(url, furl, text)
    IN /\ cache' = cache_set(cache, url, doc)
       /\ fetch_return(url, <<doc>>, g, got)

after_md_no_body_check(got, g, status) ==
    LET b == IF got # <<>> /\ accepts(got[1]) THEN <<got[1].text>> ELSE <<>>
    IN /\ r' = got
       /\ body' = b
       /\ final_url' = md_url(url)
       /\ pc' = "get_orig"
       /\ attempt' = 0
       /\ gets' = g
       /\ lastStatus' = status
       /\ UNCHANGED <<cache, url, waits, ret, last, warmup_locals>>

\* Lines 117-130: _get(md_url) returned got; accept its text or fall back to
\* the original URL.
after_md(got, g, status) ==
    LET b == IF got # <<>> /\ accepts(got[1]) THEN <<got[1].text>> ELSE <<>>
    IN IF b # <<>>
       THEN store_and_return(b[1], md_url(url), g, got)
       ELSE /\ r' = got
            /\ body' = b
            /\ final_url' = md_url(url)
            /\ pc' = "get_orig"
            /\ attempt' = 0
            /\ gets' = g
            /\ lastStatus' = status
            /\ UNCHANGED <<cache, url, waits, ret, last, warmup_locals>>

after_orig_negative(r2, g) ==
    IF r2 # <<>> /\ is_success(r2[1].status) /\ accepts(r2[1])
    THEN store_and_return(r2[1].text, url, g, r2)
    ELSE /\ cache' = cache_set(cache, url, doc_data(url, url, <<>>))
         /\ fetch_return(url, body, g, r2)

after_orig_stale_final_url(r2, g) ==
    IF r2 # <<>> /\ is_success(r2[1].status) /\ accepts(r2[1])
    THEN store_and_return(r2[1].text, final_url, g, r2)
    ELSE /\ cache' = cache
         /\ fetch_return(url, body, g, r2)

\* Lines 131-141: _get(url) returned r2.
after_orig(r2, g) ==
    IF r2 # <<>> /\ is_success(r2[1].status) /\ accepts(r2[1])
    THEN store_and_return(r2[1].text, url, g, r2)
    ELSE /\ cache' = cache
         /\ fetch_return(url, body, g, r2)

\* The value r that _get returns goes to the call site that called it.
after_get(got, g, status) ==
    IF pc \in {"get_md", "sleep_md"} THEN after_md(got, g, status) ELSE after_orig(got, g)

\* Lines 97-116: the cache lookup and, on a miss, the first request.
fetch_markdown_content_uncounted_hit(u) ==
    LET cached == cache_get(cache, u)
    IN IF truthy(cached)
       THEN /\ cache' = cache
            /\ fetch_return(u, IF op' = "warmup" THEN <<>> ELSE cached, <<>>, <<>>)
       ELSE /\ url' = u
            /\ attempt' = 0
            /\ r' = <<>>
            /\ body' = <<>>
            /\ final_url' = <<>>
            /\ gets' = <<>>
            /\ lastStatus' = 0
            /\ waits' = <<>>
            /\ pc' = "get_md"
            /\ ret' = Running
            /\ UNCHANGED <<cache, last, warmup_locals>>

fetch_markdown_content(u) ==
    LET cached == cache_get(cache, u)
    IN IF truthy(cached)
       THEN /\ cache' = cache
            /\ fetch_return(u, cached, <<>>, <<>>)
       ELSE /\ url' = u
            /\ attempt' = 0
            /\ r' = <<>>
            /\ body' = <<>>
            /\ final_url' = <<>>
            /\ gets' = <<>>
            /\ lastStatus' = 0
            /\ waits' = <<>>
            /\ pc' = "get_md"
            /\ ret' = Running
            /\ UNCHANGED <<cache, last, warmup_locals>>

request(p, u, a) ==
    [u |-> IF p = "get_md" THEN md_url(u) ELSE u,
     site |-> IF p = "get_md" THEN "md" ELSE "orig",
     attempt |-> a]

\* One attempt of _get (lines 104-110): the request and its response.
_get(resp) ==
    /\ pc \in {"get_md", "get_orig"}
    /\ UNCHANGED <<op, args, path>>
    /\ UNCHANGED index
    /\ LET g == Append(gets, request(pc, url, attempt))
       IN IF retryable(resp.status)
          THEN /\ pc' = IF pc = "get_md" THEN "sleep_md" ELSE "sleep_orig"
               /\ gets' = g
               /\ lastStatus' = resp.status
               /\ waits' = Append(waits, 2 ^ attempt)
               /\ UNCHANGED <<cache, url, attempt, r, body, final_url, ret, last, warmup_locals>>
          ELSE after_get(IF is_success(resp.status) THEN <<resp>> ELSE <<>>, g, resp.status)
    /\ UNCHANGED <<suspended, tool>>

\* http_client.get raises (timeout, connection failure).
_get_raises ==
    /\ pc \in {"get_md", "get_orig"}
    /\ fetch_raise(url, Append(gets, request(pc, url, attempt)))
    /\ UNCHANGED <<cache, index, op, args, path>>
    /\ UNCHANGED <<suspended, tool>>

\* asyncio.sleep returns (line 106); continue takes the next attempt, or the
\* loop is exhausted and _get returns None (line 111).
sleep ==
    /\ pc \in {"sleep_md", "sleep_orig"}
    /\ UNCHANGED <<op, args, path>>
    /\ UNCHANGED index
    /\ IF attempt + 1 < MaxAttempts
       THEN /\ attempt' = attempt + 1
            /\ pc' = IF pc = "sleep_md" THEN "get_md" ELSE "get_orig"
            /\ UNCHANGED <<cache, url, r, body, final_url, gets, lastStatus, waits, ret, last, warmup_locals>>
       ELSE after_get(<<>>, gets, lastStatus)
    /\ UNCHANGED <<suspended, tool>>

(***************************************************************************)
(* get_documentation_page                                                  *)
(***************************************************************************)
get_documentation_page(u) ==
    /\ pc = "idle"
    /\ op' = "get_documentation_page"
    /\ args' = [url |-> u]
    /\ path' = path
    /\ fetch_markdown_content(u)
    /\ UNCHANGED index
    /\ UNCHANGED <<suspended, tool>>

(***************************************************************************)
(* build_embeddings                                                        *)
(***************************************************************************)
\* The character U+2013 of the f-string at line 283
EnDash ==
    "ENDASH"

MarkChars ==
    {"#", ">", "*", "_", Backtick}

TextLen == 1000

SnippetLen == 500

\* re.sub(r"FENCE[\s\S]*?FENCE", " ", s), FENCE being three backticks
RECURSIVE remove_fenced(_)
remove_fenced(s) ==
    IF s = <<>> THEN <<>>
    ELSE IF startswith(s, FenceMark) /\ contains(drop(s, Len(FenceMark)), FenceMark)
    THEN LET rest == drop(s, Len(FenceMark))
         IN <<" ">> \o remove_fenced(drop(rest, find(rest, FenceMark) + Len(FenceMark) - 1))
    ELSE <<Head(s)>> \o remove_fenced(Tail(s))

\* re.sub(r"\[([^\]]+)\]\([^)]+\)", r"\1", s): a link becomes its text
RECURSIVE unlink(_)
unlink(s) ==
    IF s = <<>> THEN <<>>
    ELSE LET j == IF contains(s, <<"]">>) THEN find(s, <<"]">>) ELSE 0
             target == drop(s, j + 1)
             k == IF contains(target, <<")">>) THEN find(target, <<")">>) ELSE 0
         IN IF Head(s) = "[" /\ j >= 3 /\ Len(s) > j /\ s[j + 1] = "(" /\ k >= 2
            THEN SubSeq(s, 2, j - 1) \o unlink(drop(target, k))
            ELSE <<Head(s)>> \o unlink(Tail(s))

\* re.sub(r"[#>*_BACKTICK]", " ", s)
unmark(s) ==
    [k \in 1..Len(s) |-> IF s[k] \in MarkChars THEN " " ELSE s[k]]

\* re.sub(r"\s+", " ", s)
RECURSIVE collapse_spaces(_)
collapse_spaces(s) ==
    IF s = <<>> THEN <<>>
    ELSE IF isspace(Head(s)) THEN <<" ">> \o collapse_spaces(lstrip(s))
    ELSE <<Head(s)>> \o collapse_spaces(Tail(s))

\* Lines 283-287: the text that is embedded for one chunk
embedding_text(title, ch) ==
    LET t1 == title \o <<" ", EnDash, " ">> \o ch.heading \o Newline
                    \o remove_fenced(ch.markdown)
    IN strip(collapse_spaces(unmark(unlink(t1))))

\* Lines 281-296 for the chunks of one document
RECURSIVE doc_entries_titled(_, _, _)
doc_entries_titled(u, doc, chunks) ==
    IF chunks = <<>> THEN <<>>
    ELSE LET ch == Head(chunks)
             t == embedding_text(doc.title, ch)
             entry == [text |-> take(t, TextLen),
                       doc |-> [url |-> u,
                                markdown_url |-> doc.markdown_url,
                                title |-> doc.title,
                                heading |-> doc.title,
                                snippet |-> take(ch.markdown, SnippetLen)]]
         IN (IF t # <<>> THEN <<entry>> ELSE <<>>) \o doc_entries_titled(u, doc, Tail(chunks))

RECURSIVE doc_entries(_, _, _)
doc_entries(u, doc, chunks) ==
    IF chunks = <<>> THEN <<>>
    ELSE LET ch == Head(chunks)
             t == embedding_text(doc.title, ch)
             entry == [text |-> take(t, TextLen),
                       doc |-> [url |-> u,
                                markdown_url |-> doc.markdown_url,
                                title |-> doc.title,
                                heading |-> ch.heading,
                                snippet |-> take(ch.markdown, SnippetLen)]]
         IN (IF t # <<>> THEN <<entry>> ELSE <<>>) \o doc_entries(u, doc, Tail(chunks))

\* Lines 279-296: texts and docs, in step, over the items of the cache
RECURSIVE cache_entries(_)
cache_entries(c) ==
    IF c = <<>> THEN <<>>
    ELSE doc_entries(Head(c).key, Head(c).value, Head(c).value.chunks)
             \o cache_entries(Tail(c))

\* SentenceTransformer.encode is a fixed function of the text.  The model
\* gives a vector one component per letter of EmbeddingLetters, the number
\* of times the text has the letter.
EmbeddingLetters ==
    <<"T", "S">>

encode_text(t) ==
    [i \in 1..Len(EmbeddingLetters) |->
        Cardinality({ k \in 1..Len(t) : t[k] = EmbeddingLetters[i] })]

encode(texts) ==
    [i \in 1..Len(texts) |-> encode_text(texts[i])]

has_embeddings_never(e, d) ==
    FALSE

has_embeddings(e, d) ==
    e # <<>> /\ Len(d) > 0

build_encodes_without_model ==
    cache_entries(cache) # <<>>

\* build_embeddings calls encode (line 298) when there is a model and a text
build_encodes ==
    truthy(embedding_model) /\ cache_entries(cache) # <<>>

built_vectors_only ==
    LET entries == cache_entries(cache)
    IN IF build_encodes
       THEN [embeddings |-> << encode([i \in 1..Len(entries) |-> entries[i].text]) >>,
             documents |-> documents]
       ELSE [embeddings |-> embeddings, documents |-> documents]

\* What build_embeddings leaves in the index when encode returns
built ==
    LET entries == cache_entries(cache)
    IN IF build_encodes
       THEN [embeddings |-> << encode([i \in 1..Len(entries) |-> entries[i].text]) >>,
             documents |-> [i \in 1..Len(entries) |-> entries[i].doc]]
       ELSE [embeddings |-> embeddings, documents |-> documents]

\* The index rebuild run on its own.  encode either returns or raises; the
\* exception leaves build_embeddings before line 298 has assigned.
build_embeddings(raises) ==
    /\ pc = "idle"
    /\ op' = "build_embeddings"
    /\ args' = NoArgs
    /\ path' = path
    /\ raises => build_encodes
    /\ IF raises
       THEN /\ ret' = Raised
            /\ UNCHANGED <<embeddings, documents>>
       ELSE /\ ret' = Return(<<>>)
            /\ embeddings' = built.embeddings
            /\ documents' = built.documents
    /\ UNCHANGED <<cache, embedding_model, pc, last, fetch_locals, warmup_locals>>
    /\ UNCHANGED <<suspended, tool>>

(***************************************************************************)
(* simple_search, search_documents, answer_question                        *)
(*                                                                         *)
(* A similarity is held in tenths: the lexical score / 10.0 is the score,  *)
(* a dot product d is 10 * d.                                              *)
(***************************************************************************)
\* s.count(p)
RECURSIVE count(_, _)
count(s, p) ==
    IF p = <<>> THEN Len(s) + 1
    ELSE IF contains(s, p) THEN 1 + count(drop(s, find(s, p) + Len(p) - 1), p)
    ELSE 0

\* s[:n], n of either sign
slice_to(s, n) ==
    IF n >= 0 THEN take(s, n)
    ELSE take(s, IF Len(s) + n > 0 THEN Len(s) + n ELSE 0)

\* {**doc, "similarity": sim}
with_similarity(doc, sim) ==
    [f \in DOMAIN doc \cup {"similarity"} |-> IF f = "similarity" THEN sim ELSE doc[f]]

score_unweighted(doc, query_lower) ==
    (IF contains(lower(doc.title), query_lower) THEN 1 ELSE 0)
    + (IF contains(lower(doc.description), query_lower) THEN 1 ELSE 0)
    + (IF contains(lower(doc.content), query_lower)
       THEN count(lower(doc.content), query_lower)
       ELSE 0)

\* Lines 250-263
score(doc, query_lower) ==
    (IF contains(lower(doc.title), query_lower) THEN 3 ELSE 0)
    + (IF contains(lower(doc.description), query_lower) THEN 2 ELSE 0)
    + (IF contains(lower(doc.content), query_lower)
       THEN count(lower(doc.content), query_lower)
       ELSE 0)

\* Lines 249-269: the loop over the items of the cache
RECURSIVE scored(_, _)
scored(c, query_lower) ==
    IF c = <<>> THEN <<>>
    ELSE LET sc == score(Head(c).value, query_lower)
         IN (IF sc > 0 THEN <<with_similarity(Head(c).value, sc)>> ELSE <<>>)
                \o scored(Tail(c), query_lower)

\* list.sort(key=similarity, reverse=True): stable, equal keys keep their order
RECURSIVE sort_by_similarity(_)
sort_by_similarity(rs) ==
    IF rs = <<>> THEN <<>>
    ELSE LET sorted == sort_by_similarity(SubSeq(rs, 1, Len(rs) - 1))
             x == rs[Len(rs)]
         IN SelectSeq(sorted, LAMBDA e : e.similarity >= x.similarity)
                \o <<x>>
                \o SelectSeq(sorted, LAMBDA e : e.similarity < x.similarity)

simple_search(query, lim) ==
    slice_to(sort_by_similarity(scored(cache, lower(query))), lim)

dot(a, b) ==
    LET RECURSIVE sum(_)
        sum(n) == IF n = 0 THEN 0 ELSE a[n] * b[n] + sum(n - 1)
    IN sum(Len(a))

\* np.argsort(sims): the indices in an order that makes sims ascending.  The
\* default sort is not stable, so equal values come in any order.
argsorts(sims) ==
    { p \in [1..Len(sims) -> 1..Len(sims)] :
        /\ \A i, j \in 1..Len(sims) : i # j => p[i] # p[j]
        /\ \A i \in 1..(Len(sims) - 1) : sims[p[i]] <= sims[p[i + 1]] }

reversed_not(s) ==
    s

reversed(s) ==
    [k \in 1..Len(s) |-> s[Len(s) + 1 - k]]

\* Lines 234-242 with the index (e, d), for one order argsort can give
vector_results_of_store(e, d, query, lim, p) ==
    LET q == encode(<<query>>)[1]
        entries == cache_entries(cache)
    IN [k \in 1..Len(entries) |->
           with_similarity(entries[k].doc, 10 * dot(encode_text(entries[k].text), q))]

vector_results(e, d, query, lim, p) ==
    LET q == encode(<<query>>)[1]
        sims == [i \in 1..Len(e[1]) |-> 10 * dot(e[1][i], q)]
        idxs == slice_to(reversed(p), lim)
    IN [k \in 1..Len(idxs) |-> with_similarity(d[idxs[k]], sims[idxs[k]])]

\* Every way search_documents(query, lim) can end from the present state:
\* what it returns or that it raises, and the index it leaves.  encode can
\* raise in the rebuild (line 230) and on the query (line 234); nothing in
\* search_documents or build_embeddings catches it.
search_outcomes_always_rebuilding(query, lim) ==
    LET rebuilds == TRUE
        ix == IF rebuilds THEN built
              ELSE [embeddings |-> embeddings, documents |-> documents]
        kept == [embeddings |-> embeddings, documents |-> documents]
        lexical == ~truthy(embedding_model) \/ ~has_embeddings(ix.embeddings, ix.documents)
    IN (IF rebuilds /\ build_encodes
        THEN {[ret |-> Raised, index |-> kept, path |-> path]}
        ELSE {})
       \cup
       (IF lexical
        THEN {[ret |-> Return(simple_search(query, lim)), index |-> ix, path |-> "lexical"]}
        ELSE {[ret |-> Raised, index |-> ix, path |-> path]}
             \cup
             { [ret |-> Return(vector_results(ix.embeddings, ix.documents, query, lim, p)),
                index |-> ix, path |-> "vector"] :
               p \in argsorts([i \in 1..Len(ix.embeddings[1]) |->
                                  dot(ix.embeddings[1][i], encode(<<query>>)[1])]) })

search_outcomes(query, lim) ==
    LET rebuilds == ~has_embeddings(embeddings, documents)
        ix == IF rebuilds THEN built
              ELSE [embeddings |-> embeddings, documents |-> documents]
        kept == [embeddings |-> embeddings, documents |-> documents]
        lexical == ~truthy(embedding_model) \/ ~has_embeddings(ix.embeddings, ix.documents)
    IN (IF rebuilds /\ build_encodes
        THEN {[ret |-> Raised, index |-> kept, path |-> path]}
        ELSE {})
       \cup
       (IF lexical
        THEN {[ret |-> Return(simple_search(query, lim)), index |-> ix, path |-> "lexical"]}
        ELSE {[ret |-> Raised, index |-> ix, path |-> path]}
             \cup
             { [ret |-> Return(vector_results(ix.embeddings, ix.documents, query, lim, p)),
                index |-> ix, path |-> "vector"] :
               p \in argsorts([i \in 1..Len(ix.embeddings[1]) |->
                                  dot(ix.embeddings[1][i], encode(<<query>>)[1])]) })

search_documents(query, lim) ==
    /\ pc = "idle"
    /\ op' = "search_documents"
    /\ args' = [query |-> query, limit |-> lim]
    /\ \E o \in search_outcomes(query, lim) :
          /\ ret' = o.ret
          /\ path' = o.path
          /\ embeddings' = o.index.embeddings
          /\ documents' = o.index.documents
    /\ UNCHANGED <<cache, embedding_model, pc, last, fetch_locals, warmup_locals>>
    /\ UNCHANGED <<suspended, tool>>

NoInformationAnswer ==
    <<"I"," ","c","o","u","l","d","n","'","t"," ","f","i","n","d"," ","r",
      "e","l","e","v","a","n","t"," ","i","n","f","o","r","m","a","t","i",
      "o","n"," ","i","n"," ","t","h","e"," ","V","o","i","c","e","f","l",
      "o","w"," ","d","o","c","u","m","e","n","t","a","t","i","o","n",".">>

BasedOnPrefix ==
    <<"B","a","s","e","d"," ","o","n"," ","t","h","e"," ","d","o","c","u",
      "m","e","n","t","a","t","i","o","n",","," ","h","e","r","e","'","s",
      " ","w","h","a","t"," ","I"," ","f","o","u","n","d",":"," ">>

NoSpecificInformation ==
    <<"N","o"," ","s","p","e","c","i","f","i","c"," ","i","n","f","o","r",
      "m","a","t","i","o","n"," ","a","v","a","i","l","a","b","l","e">>

AnswerLimit == 3

\* doc.get("snippet", default)
snippet_of(doc, default) ==
    IF "snippet" \in DOMAIN doc THEN doc.snippet ELSE default

\* doc.get("heading", "")
heading_of(doc) ==
    IF "heading" \in DOMAIN doc THEN doc.heading ELSE <<>>

\* Lines 338-351: one answer part for each result that has a snippet
RECURSIVE answer_parts(_)
answer_parts(docs) ==
    IF docs = <<>> THEN <<>>
    ELSE LET doc == Head(docs)
             part == <<"*","*">> \o doc.title \o <<" ","-"," ">> \o heading_of(doc)
                         \o <<"*","*",":"," ">> \o snippet_of(doc, <<>>)
         IN (IF snippet_of(doc, <<>>) # <<>> THEN <<part>> ELSE <<>>)
                \o answer_parts(Tail(docs))

max_similarity_of_last(docs) ==
    docs[Len(docs)].similarity

max_similarity(docs) ==
    CHOOSE m \in { docs[k].similarity : k \in 1..Len(docs) } :
        \A k \in 1..Len(docs) : docs[k].similarity <= m

\* Lines 327-359, relevant_docs being what search_documents returned
answer(relevant_docs) ==
    IF relevant_docs = <<>>
    THEN [answer |-> NoInformationAnswer, sources |-> <<>>, confidence |-> 0]
    ELSE [answer |-> IF answer_parts(relevant_docs) # <<>>
                     THEN join(answer_parts(relevant_docs), <<"\n", "\n">>)
                     ELSE BasedOnPrefix
                              \o snippet_of(relevant_docs[1], NoSpecificInformation),
          sources |-> [k \in 1..Len(relevant_docs) |->
                          [title |-> relevant_docs[k].title,
                           url |-> relevant_docs[k].url,
                           relevance |-> relevant_docs[k].similarity]],
          confidence |-> max_similarity(relevant_docs)]

answer_question(question) ==
    /\ pc = "idle"
    /\ op' = "answer_question"
    /\ args' = [question |-> question]
    /\ \E o \in search_outcomes(question, AnswerLimit) :
          /\ ret' = IF o.ret.kind = "raise" THEN Raised ELSE Return(answer(o.ret.value))
          /\ path' = o.path
          /\ embeddings' = o.index.embeddings
          /\ documents' = o.index.documents
    /\ UNCHANGED <<cache, embedding_model, pc, last, fetch_locals, warmup_locals>>
    /\ UNCHANGED <<suspended, tool>>

(***************************************************************************)
(* fetch_sitemap and warmup                                                *)
(***************************************************************************)
\* root.findall('.//{ns}url'), line 83
findall_url(root) ==
    SelectSeq(root, LAMBDA elem : elem.tag = "url")

find_loc_last(url_elem) ==
    IF url_elem.locs = <<>> THEN <<>>
    ELSE << url_elem.locs[Len(url_elem.locs)] >>

\* url_elem.find('{ns}loc'), line 84: the first <loc> child, if any
find_loc(url_elem) ==
    IF url_elem.locs = <<>> THEN <<>> ELSE << Head(url_elem.locs) >>

\* Lines 83-86: the text of the first <loc> of every <url> that has one
\* with a text.
RECURSIVE loc_texts(_)
loc_texts(url_elems) ==
    IF url_elems = <<>> THEN <<>>
    ELSE LET loc_elem == find_loc(Head(url_elems))
         IN (IF loc_elem # <<>> /\ truthy(loc_elem[1]) THEN <<loc_elem[1]>> ELSE <<>>)
            \o loc_texts(Tail(url_elems))

\* Lines 76-89 without the try of line 75: the failure leaves the function
fetch_sitemap_unguarded(outcome) ==
    IF outcome.kind = "xml" THEN Return(loc_texts(findall_url(outcome.root))) ELSE Raised

\* Lines 73-93: the except of line 91 turns every failure into []
fetch_sitemap(outcome) ==
    IF outcome.kind = "xml" THEN Return(loc_texts(findall_url(outcome.root))) ELSE Return(<<>>)

in_reference(u) ==
    startswith(u, ReferencePrefix)

in_docs(u) ==
    startswith(u, DocsPrefix)

not_changelog(u) ==
    ~contains(u, ChangelogMark)

prioritize_unordered(us) ==
    SelectSeq(us, LAMBDA u : in_reference(u) \/ in_docs(u) \/ not_changelog(u))

prioritize(us) ==
    SelectSeq(us, in_reference) \o SelectSeq(us, in_docs) \o SelectSeq(us, not_changelog)

\* The call, up to the request fetch_sitemap awaits (line 76).
warmup(lim) ==
    /\ pc = "idle"
    /\ op' = "warmup"
    /\ args' = [limit |-> lim]
    /\ path' = path
    /\ limit' = lim
    /\ start_len' = Len(cache)
    /\ pc' = "w_sitemap"
    /\ ret' = Running
    /\ UNCHANGED <<cache, index, last, fetch_locals, sitemap, urls, pos, seen>>
    /\ UNCHANGED <<suspended, tool>>

\* fetch_sitemap returns; lines 306-309.
warmup_sitemap(outcome) ==
    /\ pc = "w_sitemap"
    /\ IF fetch_sitemap(outcome).kind = "raise"
       THEN /\ ret' = Raised
            /\ pc' = "idle"
            /\ warmup_locals_dropped
       ELSE /\ sitemap' = fetch_sitemap(outcome).value
            /\ urls' = prioritize(fetch_sitemap(outcome).value)
            /\ seen' = 0
            /\ pos' = 1
            /\ pc' = "w_loop"
            /\ UNCHANGED <<ret, limit, start_len>>
    /\ UNCHANGED <<cache, index, op, args, path, last, fetch_locals>>
    /\ UNCHANGED <<suspended, tool>>

warmup_fetch_unbudgeted ==
    /\ pc = "w_loop"
    /\ pos <= Len(urls)
    /\ UNCHANGED <<op, args, path>>
    /\ fetch_markdown_content(urls[pos])
    /\ UNCHANGED index
    /\ UNCHANGED <<suspended, tool>>

\* Lines 310-313: the loop takes the next candidate and fetches it.
warmup_fetch ==
    /\ pc = "w_loop"
    /\ pos <= Len(urls)
    /\ seen < limit
    /\ UNCHANGED <<op, args, path>>
    /\ fetch_markdown_content(urls[pos])
    /\ UNCHANGED index
    /\ UNCHANGED <<suspended, tool>>

\* Line 316, after the loop has ended, and the return.
warmup_build_without_rebuild(raises) ==
    /\ pc = "w_loop"
    /\ pos > Len(urls) \/ seen >= limit
    /\ raises => build_encodes
    /\ ret' = IF raises THEN Raised ELSE Return(<<>>)
    /\ UNCHANGED <<embeddings, documents>>
    /\ pc' = "idle"
    /\ warmup_locals_dropped
    /\ UNCHANGED <<cache, embedding_model, op, args, path, last, fetch_locals>>
    /\ UNCHANGED <<suspended, tool>>

warmup_build(raises) ==
    /\ pc = "w_loop"
    /\ pos > Len(urls) \/ seen >= limit
    /\ raises => build_encodes
    /\ IF raises
       THEN /\ ret' = Raised
            /\ UNCHANGED <<embeddings, documents>>
       ELSE /\ ret' = Return(<<>>)
            /\ embeddings' = built.embeddings
            /\ documents' = built.documents
    /\ pc' = "idle"
    /\ warmup_locals_dropped
    /\ UNCHANGED <<cache, embedding_model, op, args, path, last, fetch_locals>>
    /\ UNCHANGED <<suspended, tool>>

(***************************************************************************)
(* handle_call_tool                                                        *)
(*                                                                         *)
(* A response is the one text item the handler returns: its form says      *)
(* which return statement built it and its value is the text of an error   *)
(* or unknown-tool response, and for the other forms the data the text is  *)
(* written from.                                                           *)
(***************************************************************************)
SearchTool ==
    <<"s","e","a","r","c","h","_","v","o","i","c","e","f","l","o","w","_","d","o","c","s">>

PageTool ==
    <<"g","e","t","_","v","o","i","c","e","f","l","o","w","_","d","o","c","_","p","a","g","e">>

AskTool ==
    <<"a","s","k","_","v","o","i","c","e","f","l","o","w","_","q","u","e","s","t","i","o","n">>

TopicsTool ==
    <<"l","i","s","t","_","v","o","i","c","e","f","l","o","w","_","t","o","p","i","c","s">>

ToolNames ==
    {SearchTool, PageTool, AskTool, TopicsTool}

\* The tool names a call arrives with: the four tools and two other names
CalledNames ==
    ToolNames \cup { <<"s","e","a","r","c","h">>, <<>> }

\* The argument maps a call arrives with
ArgumentMaps ==
    { NoArguments,
      [query |-> <<"T">>],
      [query |-> <<"T">>, limit |-> 1],
      [url |-> UrlDocs],
      [question |-> <<"T">>] }

\* Lines 437, 476: the limit of the warm-up a tool call runs
WarmupLimit == 120

\* Line 432: the limit of a search without one
DefaultLimit == 5

ErrorPrefix ==
    <<"E","r","r","o","r",":"," ">>

UnknownPrefix ==
    <<"U","n","k","n","o","w","n"," ","t","o","o","l",":"," ">>

DocsWord ==
    <<"d","o","c","s">>

General ==
    <<"g","e","n","e","r","a","l">>

\* A page below a page of /docs, and the start page
UrlDocsNested ==
    <<"h","t","t","p","s",":","/","/","d","o","c","s",".","v","o","i","c","e","f","l","o","w",".","c","o","m","/","d","o","c","s","/","b","/","x">>

UrlRoot ==
    <<"h","t","t","p","s",":","/","/","d","o","c","s",".","v","o","i","c","e","f","l","o","w",".","c","o","m","/">>

\* What the sitemap request of a warm-up run by a tool call brings
ToolSitemaps ==
    EngineSitemaps \cup [kind : {"network_error"}, root : { <<>> }]

\* What the sitemap request of list_voiceflow_topics brings
TopicSitemaps ==
    ToolSitemaps
        \cup [kind : {"xml"},
              root : { urlset(<< <<UrlDocs>>, <<UrlDocsNested>>, <<UrlRoot>>, <<UrlChangelog>> >>) }]

\* The server of the pages: the markdown of the page, or no page
ToolResponses ==
    [status : {200},
     content_type : { << <<"t","e","x","t","/","m","a","r","k","d","o","w","n">> >> },
     text : {BodyTwice}]
    \cup { resp \in Responses : resp.status = 404 }

\* arguments.get(key, default)
get(arguments, key, default) ==
    IF key \in DOMAIN arguments THEN arguments[key] ELSE default

\* The key each tool reads with arguments[key] (lines 431, 454, 471)
required_key(name) ==
    IF name = SearchTool THEN <<"query">>
    ELSE IF name = PageTool THEN <<"url">>
    ELSE IF name = AskTool THEN <<"question">>
    ELSE <<>>

\* arguments[key] raises KeyError(key); str() of it is the key's repr
KeyError(key) ==
    [kind |-> "raise",
     value |-> IF key = "query" THEN <<"'","q","u","e","r","y","'">>
               ELSE IF key = "url" THEN <<"'","u","r","l","'">>
               ELSE <<"'","q","u","e","s","t","i","o","n","'">>]

text_response(form, value) ==
    [kind |-> "text", form |-> form, value |-> value]

error_response_reraised(e) ==
    [kind |-> "raise", form |-> "error", value |-> e.value]

\* Lines 521-523: except Exception returns the text "Error: " + str(e)
error_response(e) ==
    text_response("error", ErrorPrefix \o e.value)

\* Lines 518-519
unknown_response(name) ==
    text_response("unknown", UnknownPrefix \o name)

\* The prefix of s before its first character of cs
cut_at(s, cs) ==
    IF \E k \in 1..Len(s) : s[k] \in cs
    THEN SubSeq(s, 1, (CHOOSE k \in 1..Len(s) :
                          s[k] \in cs /\ \A j \in 1..(k - 1) : s[j] \notin cs) - 1)
    ELSE s

\* urlparse(url).path, line 498: what follows the host, up to "?" or "#"
url_path(u) ==
    LET rest == IF contains(u, <<":","/","/">>) THEN drop(u, find(u, <<":","/","/">>) + 2) ELSE u
        after_host == drop(rest, Len(cut_at(rest, {"/", "?", "#"})))
    IN cut_at(after_host, {"?", "#"})

\* Line 499
path_parts(u) ==
    SelectSeq(split(url_path(u), <<"/">>, -1), LAMBDA p : truthy(p) /\ p # DocsWord)

\* Lines 500-501: None for a URL without parts
category_of(u) ==
    IF path_parts(u) = <<>> THEN <<>>
    ELSE IF Len(path_parts(u)) > 1 THEN << path_parts(u)[1] >>
    ELSE << General >>

\* Lines 496-504: the dict categories, each category with its URLs in the
\* order of the sitemap
categories(us) ==
    [c \in { category_of(us[k])[1] : k \in { k \in 1..Len(us) : category_of(us[k]) # <<>> } } |->
        SelectSeq(us, LAMBDA u : category_of(u) = <<c>>)]

\* Lines 435, 474: if not voiceflow.cache.cache
needs_warmup_always(c) ==
    TRUE

needs_warmup(c) ==
    ~truthy(c)

\* Line 427: the call arrives. An unknown name (line 518) and a missing
\* argument (the KeyError of lines 431, 454, 471) end it at once.
handle_call_tool(name, arguments) ==
    /\ pc = "idle"
    /\ tool.stage # "called"
    /\ tool' = [name |-> name,
                arguments |-> arguments,
                stage |-> IF name \in ToolNames
                             /\ \A k \in 1..Len(required_key(name)) :
                                   required_key(name)[k] \in DOMAIN arguments
                          THEN "called" ELSE "done",
                response |-> IF name \notin ToolNames THEN unknown_response(name)
                             ELSE IF \E k \in 1..Len(required_key(name)) :
                                        required_key(name)[k] \notin DOMAIN arguments
                             THEN error_response(KeyError(required_key(name)[1]))
                             ELSE NoResponse]
    /\ op' = "none"
    /\ args' = NoArgs
    /\ ret' = Running
    /\ UNCHANGED <<cache, index, pc, path, last, fetch_locals, warmup_locals, suspended>>

\* The core operation of the call has not begun.
called(name) ==
    tool.stage = "called" /\ tool.name = name /\ op = "none"

\* The warm-up of the call has returned.
warmed(name) ==
    /\ tool.stage = "called" /\ tool.name = name
    /\ op = "warmup" /\ pc = "idle" /\ ret.kind = "return"

\* Lines 435-437 and 474-476
call_warmup ==
    /\ called(SearchTool) \/ called(AskTool)
    /\ needs_warmup(cache)
    /\ warmup(WarmupLimit)

\* Line 439
call_search ==
    /\ \/ called(SearchTool) /\ ~needs_warmup(cache)
       \/ warmed(SearchTool)
    /\ search_documents(tool.arguments.query, get(tool.arguments, "limit", DefaultLimit))

\* Line 478
call_ask ==
    /\ \/ called(AskTool) /\ ~needs_warmup(cache)
       \/ warmed(AskTool)
    /\ answer_question(tool.arguments.question)

\* Line 455
call_page ==
    /\ called(PageTool)
    /\ get_documentation_page(tool.arguments.url)

\* Lines 491-516: fetch_sitemap returns and the URLs are grouped.
list_topics(outcome) ==
    /\ called(TopicsTool)
    /\ pc = "idle"
    /\ tool' = [tool EXCEPT !.stage = "done",
                            !.response = text_response("topics",
                                            categories(fetch_sitemap(outcome).value))]
    /\ op' = "fetch_sitemap"
    /\ args' = NoArgs
    /\ ret' = fetch_sitemap(outcome)
    /\ UNCHANGED <<cache, index, pc, path, last, fetch_locals, warmup_locals, suspended>>

\* The core operation has ended: the return of lines 451, 468, 489 with its
\* result, or the except of lines 521-523 with its exception.
respond ==
    /\ tool.stage = "called"
    /\ pc = "idle"
    /\ op \in {"warmup", "search_documents", "answer_question", "get_documentation_page"}
    /\ ret.kind \in {"return", "raise"}
    /\ op = "warmup" => ret.kind = "raise"
    /\ tool' = [tool EXCEPT !.stage = "done",
                            !.response = IF ret.kind = "raise" THEN error_response(ret)
                                         ELSE text_response(op, ret.value)]
    /\ UNCHANGED <<cache, index, pc, op, args, path, ret, last, fetch_locals, warmup_locals, suspended>>

(***************************************************************************)
(* Vocabulary of the properties                                            *)
(***************************************************************************)
AllUrls ==
    PageUrls \cup WarmUrls
        \cup { ReferencePages[k] : k \in DOMAIN ReferencePages }
        \cup { DocsPages[k] : k \in DOMAIN DocsPages }

FetchStates ==
    {"get_md", "sleep_md", "get_orig", "sleep_orig"}

Range(f) ==
    { f[k] : k \in DOMAIN f }

\* A fetch call that returns within the step that calls it
FetchHitStep ==
    \/ pc = "idle" /\ pc' = "idle" /\ op' = "get_documentation_page"
    \/ pc = "w_loop" /\ pc' = "w_loop"

\* A step in which a fetch call ends
FetchEndStep ==
    \/ FetchHitStep
    \/ pc \in FetchStates /\ pc' \notin FetchStates

\* A step in which fetch is called on u
FetchCallStep(u) ==
    /\ pc \in {"idle", "w_loop"}
    /\ \/ pc' = "get_md" /\ url' = u
       \/ FetchHitStep /\ last'.url = u

Stored(rv) ==
    rv.kind = "return" /\ rv.value # <<>>

MdVariant(u) ==
    IF endswith(u, <<".","m","d">>) THEN u ELSE u \o <<".","m","d">>

RetryStatus(status) ==
    status = 429 \/ status \in 500..599

RuleOn(ctype, text) ==
    \/ contains(ctype, <<"m","a","r","k","d","o","w","n">>)
    \/ contains(ctype, <<"t","e","x","t","/","p","l","a","i","n">>)
    \/ startswith(text, <<"#"," ">>)
    \/ contains(text, <<Backtick, Backtick, Backtick>>)

DeclaredType(resp) ==
    IF resp.content_type = <<>> THEN <<>> ELSE resp.content_type[1]

UnderReference(u) ==
    startswith(u, base_url \o <<"/","r","e","f","e","r","e","n","c","e">>)

UnderDocs(u) ==
    startswith(u, base_url \o <<"/","d","o","c","s">>)

\* A step in which a search, or the search of a question, returns
SearchReturnStep ==
    /\ pc = "idle"
    /\ pc' = "idle"
    /\ op' \in {"search_documents", "answer_question"}
    /\ ret'.kind = "return"

NoChunks ==
    \A k \in 1..Len(cache) : cache[k].value.chunks = <<>>

\* The body of the frontmatter scenario
BodyFrontmatter ==
    <<"-","-","-","\n","t","i","t","l","e",":"," ","X","\n","-","-","-","\n","#"," ","H","e","a","d","i","n","g","\n","B","o","d","y"," ","t","e","x","t">>

\* The lines of the bodies handed to extract_title
TitleInputLines ==
    { <<"-","-","-">>,
      <<"t","i","t","l","e",":"," ","X">>,
      <<"#"," ","H">>,
      <<"t">> }

\* The bodies handed to extract_title: up to MaxLines lines, behind no line,
\* behind TitleLines - 1 or behind TitleLines blank lines, and the scenario
Contents ==
    { join([k \in 1..pad |-> <<>>] \o lines, Newline) :
        pad \in {0, TitleLines - 1, TitleLines},
        lines \in UNION { [1..n -> TitleInputLines] : n \in 0..MaxLines } }
    \cup {BodyFrontmatter}

\* A body whose paragraph after the level-2 heading is longer than
\* DescriptionLen characters
BodyLongParagraph ==
    <<"#"," ","T","\n","#","#"," ","S","\n">> \o [k \in 1..(DescriptionLen + 1) |-> "t"]

\* The lines of the bodies handed to extract_description
DescriptionInputLines ==
    { <<>>,
      <<"d","e","s","c","r","i","p","t","i","o","n",":"," ","D">>,
      <<"#","#"," ","S">>,
      <<"#"," ","T">>,
      <<"t">> }

\* The bodies handed to extract_description: up to MaxLines lines, behind
\* no line, behind DescriptionLines - 1 or behind DescriptionLines blank
\* lines, and the body with the long paragraph
Descriptions ==
    { join([k \in 1..pad |-> <<>>] \o lines, Newline) :
        pad \in {0, DescriptionLines - 1, DescriptionLines},
        lines \in UNION { [1..n -> DescriptionInputLines] : n \in 0..MaxLines } }
    \cup {BodyLongParagraph}

\* Lines 173-184, as a call of its own on the body drawn at the start
get_description(content) ==
    /\ pc = "idle"
    /\ op = "none"
    /\ args = [content |-> content]
    /\ op' = "extract_description"
    /\ ret' = Return(extract_description(content))
    /\ UNCHANGED <<cache, index, pc, args, path, last, fetch_locals, warmup_locals>>
    /\ UNCHANGED <<suspended, tool>>

\* Lines 163-171, as a call of its own on the body drawn at the start
get_title(content) ==
    /\ pc = "idle"
    /\ op = "none"
    /\ args = [content |-> content]
    /\ op' = "extract_title"
    /\ ret' = Return(extract_title(content))
    /\ UNCHANGED <<cache, index, pc, args, path, last, fetch_locals, warmup_locals>>
    /\ UNCHANGED <<suspended, tool>>

\* Lines 199-225, as a call of its own on the text drawn at the start
chunk(md) ==
    /\ pc = "idle"
    /\ op = "none"
    /\ args = [md |-> md]
    /\ op' = "chunk_markdown"
    /\ ret' = Return(chunk_markdown(md))
    /\ UNCHANGED <<cache, index, pc, args, path, last, fetch_locals, warmup_locals>>
    /\ UNCHANGED <<suspended, tool>>

\* The lexical score, in tenths of the similarity, F being what is done to
\* the query and to the text before they are compared
LexicalScore(doc, q, F(_)) ==
    (IF contains(F(doc.title), F(q)) THEN 3 ELSE 0)
    + (IF contains(F(doc.description), F(q)) THEN 2 ELSE 0)
    + count(F(doc.content), F(q))

\* The search that has returned gave the stored documents of a score above
\* 0, each with its score, the highest first, as many as the limit allows
\* and none left out that scores higher than one returned.
LexicalAnswer(F(_)) ==
    LET sc(k) == LexicalScore(cache[k].value, args.query, F)
        hits == { k \in 1..Len(cache) : sc(k) > 0 }
        res == ret.value
    IN /\ Len(res) = IF Cardinality(hits) < args.limit THEN Cardinality(hits) ELSE args.limit
       /\ \A i \in 1..Len(res) :
             \E k \in hits :
                /\ res[i].url = cache[k].key
                /\ res[i].similarity = sc(k)
                /\ \A f \in DOMAIN cache[k].value : res[i][f] = cache[k].value[f]
       /\ \A i, j \in 1..Len(res) : res[i].url = res[j].url => i = j
       /\ \A i \in 1..(Len(res) - 1) : res[i].similarity >= res[i + 1].similarity
       /\ \A k \in hits :
             (\A i \in 1..Len(res) : res[i].url # cache[k].key) =>
                 \A i \in 1..Len(res) : res[i].similarity >= sc(k)

LexicalSearchReturned ==
    /\ pc = "idle"
    /\ op = "search_documents"
    /\ ret.kind = "return"
    /\ path = "lexical"
    /\ args.limit >= 0

ChunkReturned ==
    op = "chunk_markdown" /\ ret.kind = "return"

\* The lines of a text that are not blank, each without the whitespace
\* around it
NonBlankLines(text) ==
    LET kept == SelectSeq(splitlines(text), LAMBDA ln : strip(ln) # <<>>)
    IN [i \in 1..Len(kept) |-> strip(kept[i])]

IsFence(ln) ==
    startswith(strip(ln), FenceMark)

\* How many of the first n lines are fence lines
FencesIn(lines, n) ==
    Cardinality({ i \in 1..n : IsFence(lines[i]) })

OpenAfter(lines, n) ==
    FencesIn(lines, n) % 2 = 1

BalancedFences(text) ==
    LET lines == NonBlankLines(text) IN ~OpenAfter(lines, Len(lines))

RECURSIVE ChunkLinesUpTo(_, _)
\* The non-blank lines of the first k chunks, in order
ChunkLinesUpTo(chunks, k) ==
    IF k = 0 THEN <<>>
    ELSE ChunkLinesUpTo(chunks, k - 1) \o NonBlankLines(chunks[k].markdown)

RECURSIVE ChunksConcatenated(_, _)
ChunksConcatenated(chunks, k) ==
    IF k = 0 THEN <<>>
    ELSE ChunksConcatenated(chunks, k - 1) \o chunks[k].markdown

WithoutWhitespace(text) ==
    SelectSeq(text, LAMBDA c : ~isspace(c))

RECURSIVE LocTextsOf(_, _)
\* The texts of the <loc> elements of the document, in document order, of
\* the elements of root; FirstOnly for the first <loc>
\* of an element alone
LocTextsOf(root, FirstOnly) ==
    IF root = <<>> THEN <<>>
    ELSE LET locs == Head(root).locs
             read == IF FirstOnly /\ locs # <<>> THEN <<Head(locs)>> ELSE locs
         IN SelectSeq(read, LAMBDA t : t # <<>>) \o LocTextsOf(Tail(root), FirstOnly)

UrlElements(root) ==
    SelectSeq(root, LAMBDA elem : elem.tag = "url")

\* The answer is the one ask gives on the list of results
AnswerOn(given, results) ==
    IF results = <<>>
    THEN given = [answer |-> NoInformationAnswer, sources |-> <<>>, confidence |-> 0]
    ELSE /\ Len(given.sources) = Len(results)
         /\ \A k \in 1..Len(results) :
               given.sources[k] = [title |-> results[k].title,
                                   url |-> results[k].url,
                                   relevance |-> results[k].similarity]
         /\ \E k \in 1..Len(results) : given.confidence = results[k].similarity
         /\ \A k \in 1..Len(results) : given.confidence >= results[k].similarity

\* The first of the first TitleLines lines of the body that starts with the
\* mark, as an Optional
FirstLineWith(content, mark) ==
    LET lines == split(content, Newline, -1)
        n == IF Len(lines) < TitleLines THEN Len(lines) ELSE TitleLines
        at == { k \in 1..n : startswith(lines[k], mark) }
    IN IF at = {} THEN <<>>
       ELSE << lines[CHOOSE k \in at : \A j \in at : k <= j] >>

\* The title with the heading line before the "title:" line
TitleHeadingFirst(content) ==
    LET heading == FirstLineWith(content, <<"#"," ">>)
        front == FirstLineWith(content, <<"t","i","t","l","e",":">>)
    IN IF heading # <<>> THEN strip(drop(heading[1], 2))
       ELSE IF front # <<>> THEN strip(drop(front[1], 6))
       ELSE <<"U","n","t","i","t","l","e","d">>

RECURSIVE ChunksOfStore(_)
\* The chunks of the documents of the store, in the store's order, each
\* with the URL and the title of its document
ChunksOfStore(c) ==
    IF c = <<>> THEN <<>>
    ELSE ChunksOfStore(SubSeq(c, 1, Len(c) - 1)) \o
         [k \in 1..Len(c[Len(c)].value.chunks) |->
             [url |-> c[Len(c)].key,
              title |-> c[Len(c)].value.title,
              chunk |-> c[Len(c)].value.chunks[k]]]

\* The index has one entry per chunk of the store, in the store's order
IndexCovers(c, e, d) ==
    LET chunks == ChunksOfStore(c)
    IN /\ e # <<>>
       /\ Len(e[1]) = Len(chunks)
       /\ Len(d) = Len(chunks)
       /\ \A i \in 1..Len(chunks) :
             /\ d[i].url = chunks[i].url
             /\ d[i].title = chunks[i].title
             /\ d[i].heading = chunks[i].chunk.heading
             /\ d[i].snippet = SubSeq(chunks[i].chunk.markdown, 1,
                     IF Len(chunks[i].chunk.markdown) < 500
                     THEN Len(chunks[i].chunk.markdown) ELSE 500)

\* The document stored under u has no entry in the index
NotIndexed(u) ==
    \A i \in 1..Len(documents) : documents[i].url # u

\* The chunks of the store whose embedding-input string is not empty
ChunksToEmbed(c) ==
    SelectSeq(ChunksOfStore(c),
              LAMBDA x : embedding_text(x.title, x.chunk) # <<>>)

RECURSIVE OwnerOf(_, _)
\* The document stored under u
OwnerOf(c, u) ==
    IF Head(c).key = u THEN Head(c).value ELSE OwnerOf(Tail(c), u)

\* The place in the array d of the entry that the result was made of
PlaceIn(d, result) ==
    CHOOSE i \in 1..Len(d) : \A f \in DOMAIN d[i] : result[f] = d[i][f]

\* The place in the store of the document that the result was made of
PlaceInStore(result) ==
    CHOOSE k \in 1..Len(cache) : cache[k].key = result.url

\* The number of "#" of a line that is a heading of level 1 to 3, else 0
HeadingLevel(ln) ==
    IF \E n \in 1..3 : /\ Len(ln) > n
                        /\ \A k \in 1..n : ln[k] = "#"
                        /\ isspace(ln[n + 1])
    THEN CHOOSE n \in 1..3 : /\ Len(ln) > n
                             /\ \A k \in 1..n : ln[k] = "#"
                             /\ isspace(ln[n + 1])
    ELSE 0

\* The places of the heading lines of a text that are outside its fences
HeadingLinesOf(text) ==
    LET lines == splitlines(text)
    IN { i \in 1..Len(lines) :
           /\ ~IsFence(lines[i])
           /\ HeadingLevel(lines[i]) > 0
           /\ ~OpenAfter(lines, i - 1) }

\* A heading line without text, what the trimming of its chunk leaves of it
BareMarker(ln) ==
    ln \in { <<"#">>, <<"#","#">>, <<"#","#","#">> }

DescriptionReturned ==
    op = "extract_description" /\ ret.kind = "return"

\* The lines of a body, cut at every line feed
BodyLines(content) ==
    split(content, Newline, -1)

\* The places among the first 20 lines of the lines that start with
\* "description:"
DescriptionLinesOf(lines) ==
    { k \in 1..Len(lines) : k <= 20 /\ startswith(lines[k], DescriptionMark) }

\* The places of the non-empty, non-heading lines within the 4 lines after
\* line k
ParagraphsAfter(lines, k) ==
    { j \in (k + 1)..(k + 4) :
        j <= Len(lines) /\ strip(lines[j]) # <<>> /\ lines[j][1] # "#" }

\* The places among the first 20 lines, the first line apart, of the level-2
\* headings that have a paragraph within the 4 lines after them
SubheadingsOf(lines) ==
    { k \in 2..Len(lines) :
        /\ k <= 20
        /\ startswith(lines[k], SubheadingMark)
        /\ ParagraphsAfter(lines, k) # {} }

Least(S) ==
    CHOOSE k \in S : \A h \in S : k <= h

\* The tool call t lacks the argument its tool reads.
MissingArgument(t) ==
    \/ t.name = SearchTool /\ "query" \notin DOMAIN t.arguments
    \/ t.name = PageTool /\ "url" \notin DOMAIN t.arguments
    \/ t.name = AskTool /\ "question" \notin DOMAIN t.arguments

\* A tool call returns in this step.
ToolReturns ==
    tool' # tool /\ tool'.stage = "done"

\* A warm-up begins in this step.
WarmupBegins ==
    op' = "warmup" /\ op # "warmup"

\* The query of a search or ask tool call runs in this step.
QueryRuns ==
    op' \in {"search_documents", "answer_question"} /\ op' # op

\* The groups of a topics response that hold the URL u
GroupsOf(groups, u) ==
    { c \in DOMAIN groups : \E k \in 1..Len(groups[c]) : groups[c][k] = u }

TopicsReturned ==
    tool.stage = "done" /\ tool.response.form = "topics"

InSomeBucket(u) ==
    \/ startswith(u, base_url \o <<"/","r","e","f","e","r","e","n","c","e">>)
    \/ startswith(u, base_url \o <<"/","d","o","c","s">>)
    \/ ~contains(u, <<"/","c","h","a","n","g","e","l","o","g">>)

(***************************************************************************)
(* Properties                                                              *)
(***************************************************************************)
\* C1: a fetch called on a URL that is a key of the store returns the stored
\* document within the call, without a request, and leaves the store and the
\* index as they are.
C1_CacheHit ==
    [][\A u \in cache_keys(cache) :
          FetchCallStep(u) =>
              /\ pc' \notin FetchStates
              /\ gets' = <<>>
              /\ last'.sites = {}
              /\ last'.ret = Return(cache_get(cache, u))
              /\ op' = "get_documentation_page" => ret' = Return(cache_get(cache, u))
              /\ cache' = cache
              /\ embeddings' = embeddings
              /\ documents' = documents]_vars

C1_Witness ==
    /\ pc = "idle"
    /\ op = "get_documentation_page"
    /\ last.sites = {}
    /\ Stored(last.ret)
    /\ ret = last.ret
    /\ cache_get(cache, last.url) = ret.value
    /\ embeddings # <<>>
    /\ documents # <<>>

\* C2 as stated: two fetch calls in sequence on one URL that both return
\* make at most one network retrieval in total and return the same value.
C2_Original ==
    [][(/\ FetchEndStep
        /\ last'.url = last.url
        /\ last.ret.kind = "return"
        /\ last'.ret.kind = "return")
          => /\ last.sites = {} \/ last'.sites = {}
             /\ last'.ret = last.ret]_vars

\* C2: when a fetch call has returned a document, the next fetch call on the
\* same URL makes no request and returns that same document.
C2_IdempotentAfterSuccess ==
    [][(/\ FetchEndStep
        /\ last'.url = last.url
        /\ Stored(last.ret))
          => /\ last'.sites = {}
             /\ last'.ret = last.ret]_vars

C2_Witness ==
    /\ pc = "idle"
    /\ last.sites = {}
    /\ Stored(last.ret)
    /\ last.url = UrlReference
    /\ last.ret.value[1].markdown_url = UrlReference

\* C3: a fetch that returns None changes no store entry and records nothing
\* for its URL; only a fetch that returns a document changes the store; and
\* the next fetch of that URL goes to the network again.
C3_NotFoundNotCached ==
    [][/\ (FetchEndStep /\ last'.ret = Return(<<>>))
            => cache' = cache /\ last'.url \notin cache_keys(cache')
       /\ cache' # cache => FetchEndStep /\ Stored(last'.ret)
       /\ \A u \in AllUrls :
            (FetchCallStep(u) /\ u = last.url /\ last.ret = Return(<<>>))
                => pc' = "get_md" /\ gets' = <<>>]_vars

C3_Witness ==
    /\ pc = "get_md"
    /\ last.ret = Return(<<>>)
    /\ last.sites = {"md", "orig"}
    /\ url = last.url
    /\ cache = <<>>

C5_BoundedRetry ==
    /\ pc \in {"get_md", "get_orig"} =>
          /\ attempt \in 0..3
          /\ attempt > 0 => RetryStatus(lastStatus)
    /\ pc \in {"sleep_md", "sleep_orig"} =>
          /\ attempt \in 0..3
          /\ RetryStatus(lastStatus)
    /\ \A s \in {"md", "orig"} :
          LET n == Cardinality({ k \in 1..Len(gets) : gets[k].site = s })
          IN /\ n <= 4
             /\ pc = "get_" \o s => n = attempt
             /\ pc = "sleep_" \o s => n = attempt + 1

C5_Witness ==
    /\ pc = "get_orig"
    /\ attempt = 3
    /\ lastStatus = 599
    /\ Len(gets) = 4

\* C6: no fetch call ends with an exception: a failed request is retried
\* and, at worst, the call returns None.
C6_NeverRaises ==
    last.ret.kind # "raise" /\ ret.kind # "raise"

\* C7: the requests of a fetch call are those of the .md variant followed by
\* those of the original URL, and the original URL is requested only while
\* no body has been accepted and nothing is stored for the URL.
C7_MarkdownFirst ==
    /\ \A k \in 1..Len(gets) :
          gets[k].u = (IF gets[k].site = "md" THEN MdVariant(url) ELSE url)
    /\ \A j, k \in 1..Len(gets) :
          j < k => ~(gets[j].site = "orig" /\ gets[k].site = "md")
    /\ pc \in {"get_md", "sleep_md"} => \A k \in 1..Len(gets) : gets[k].site = "md"
    /\ pc \in {"get_orig", "sleep_orig"} =>
          /\ gets # <<>>
          /\ gets[1].site = "md"
          /\ body = <<>>
          /\ url \notin cache_keys(cache)
    /\ last.sites \in {{}, {"md"}, {"md", "orig"}}
    /\ last.sites = {"md"} => last.from = MdVariant(last.url)
    /\ last.sites = {"md", "orig"} => last.from = last.url

C7_Witness ==
    /\ pc = "get_orig"
    /\ last.sites = {"md"}
    /\ Stored(last.ret)
    /\ url # last.url

\* C8 as stated: the value _get returns is accepted exactly when the rule
\* holds of the content type as the server declared it.
C8_Original ==
    /\ pc \in {"get_orig", "sleep_orig"} =>
          r = <<>> \/ ~RuleOn(DeclaredType(r[1]), r[1].text)
    /\ (last.sites # {} /\ last.ret.kind = "return") =>
          /\ Stored(last.ret) <=>
                (last.r # <<>> /\ RuleOn(DeclaredType(last.r[1]), last.r[1].text))
          /\ Stored(last.ret) => last.ret.value[1].raw_content = last.r[1].text

\* C8: the value _get returns is accepted exactly when the rule holds of the
\* lower-cased content type, at both call sites, and the document is built
\* from an accepted text only.
C8_AcceptRule ==
    /\ pc \in {"get_orig", "sleep_orig"} =>
          r = <<>> \/ ~RuleOn(lower(DeclaredType(r[1])), r[1].text)
    /\ (last.sites # {} /\ last.ret.kind = "return") =>
          /\ Stored(last.ret) <=>
                (last.r # <<>> /\ RuleOn(lower(DeclaredType(last.r[1])), last.r[1].text))
          /\ Stored(last.ret) => last.ret.value[1].raw_content = last.r[1].text

C8_Witness ==
    /\ Stored(last.ret)
    /\ last.sites = {"md", "orig"}
    /\ last.r # <<>>
    /\ DeclaredType(last.r[1]) = <<"T","e","x","t","/","M","a","r","k","d","o","w","n">>
    /\ last.r[1].text = BodyHtml

\* C9: every store entry is keyed by a URL that was passed to fetch, holds
\* a document whose url is the key, and whose markdown_url is the URL of the
\* request that brought the accepted text.
C9_StoreKeys ==
    /\ \A k \in 1..Len(cache) :
          /\ cache[k].key \in AllUrls
          /\ cache[k].value.url = cache[k].key
          /\ cache[k].value.markdown_url \in {MdVariant(cache[k].key), cache[k].key}
          /\ \A j \in 1..Len(cache) : cache[j].key = cache[k].key => j = k
    /\ (last.sites # {} /\ Stored(last.ret)) =>
          /\ cache_get(cache, last.url) = last.ret.value
          /\ last.ret.value[1].url = last.url
          /\ last.ret.value[1].markdown_url = last.from
          /\ last.ret.value[1].raw_content = last.r[1].text

C9_Witness ==
    /\ Len(cache) = 2
    /\ cache[1].key = UrlReference
    /\ cache[1].value.markdown_url = UrlReference
    /\ cache[2].key = UrlOtherMd
    /\ last.sites = {"md"}
    /\ last.from = UrlOtherMd

\* C10: while warmup runs, the documents it has counted do not exceed limit,
\* the store has grown by no more than that count, and every URL it fetches
\* is a sitemap URL of one of the three buckets.
C10_WarmupBudget ==
    (op = "warmup" /\ pc \notin {"idle", "w_sitemap"}) =>
        /\ seen <= limit
        /\ Len(cache) - start_len <= seen
        /\ \A k \in 1..Len(urls) : urls[k] \in Range(sitemap) /\ InSomeBucket(urls[k])
        /\ pc \in FetchStates =>
              seen < limit /\ url \in Range(sitemap) /\ InSomeBucket(url)
        /\ (pc = "w_loop" /\ pos > 1) =>
              last.url \in Range(sitemap) /\ InSomeBucket(last.url)

C10_Witness ==
    /\ op = "warmup"
    /\ pc = "w_loop"
    /\ limit = 2
    /\ seen = 2
    /\ pos <= Len(urls)
    /\ Len(cache) = start_len + 2
    /\ UrlChangelog \in Range(sitemap)

C12_TopLimitDescending ==
    (pc = "idle" /\ op = "search_documents" /\ ret.kind = "return" /\ args.limit >= 1) =>
        /\ Len(ret.value) <= args.limit
        /\ \A k \in 1..(Len(ret.value) - 1) :
              ret.value[k].similarity >= ret.value[k + 1].similarity

\* The vector path has ranked chunks of unequal similarity, more than the
\* limit let through.
C12_Witness ==
    /\ pc = "idle"
    /\ op = "search_documents"
    /\ ret.kind = "return"
    /\ args.limit = 1
    /\ Len(ret.value) = 1
    /\ "snippet" \in DOMAIN ret.value[1]
    /\ Len(documents) >= 3
    /\ \E i, j \in 1..Len(documents) :
          dot(embeddings[1][i], encode(<<args.query>>)[1])
              < dot(embeddings[1][j], encode(<<args.query>>)[1])

\* C13: in every state the index has as many vectors as metadata entries (none
\* of either before the first rebuild), and vector i is the embedding of the
\* chunk that metadata entry i describes: a rebuild replaces both arrays in
\* one step, and a rebuild that fails replaces neither.
C13_ParallelArrays ==
    /\ embeddings = <<>> => documents = <<>>
    /\ embeddings # <<>> =>
          /\ Len(embeddings[1]) = Len(documents)
          /\ \A i \in 1..Len(documents) :
                embeddings[1][i] =
                    encode_text(embedding_text(documents[i].title,
                                               [heading |-> documents[i].heading,
                                                markdown |-> documents[i].snippet]))

\* A warm-up has rebuilt the index: three chunks from two documents.
C13_Witness ==
    /\ pc = "idle"
    /\ op = "warmup"
    /\ ret = Return(<<>>)
    /\ Len(cache) = 2
    /\ Len(documents) = 3
    /\ Len(embeddings[1]) = 3
    /\ documents[1].url # documents[3].url

\* C14: without an embedding model the index stays empty, no search, question
\* or rebuild ends with the exception that only a call of the model can
\* raise, and every search returns what the lexical scorer returns for its
\* query and limit.
C14_FallbackWithoutModel ==
    embedding_model = <<>> =>
        /\ embeddings = <<>>
        /\ documents = <<>>
        /\ op \in {"search_documents", "answer_question", "build_embeddings"} =>
              ret.kind = "return"
        /\ (pc = "idle" /\ op = "search_documents") =>
              ret.value = simple_search(args.query, args.limit)

\* Without a model, a search over two stored documents has returned both.
C14_Witness ==
    /\ embedding_model = <<>>
    /\ pc = "idle"
    /\ op = "search_documents"
    /\ Len(cache) = 2
    /\ Len(ret.value) = 2
    /\ ret.value[1].url # ret.value[2].url

\* C15 as stated: the search that follows a search answered by the lexical
\* scorer is answered by the lexical scorer too, whatever happened between.
C15_Original ==
    [][(path = "lexical" /\ SearchReturnStep) => path' = "lexical"]_vars

\* C15: the model is never loaded or dropped after construction, and a search
\* is answered by the lexical scorer exactly when there is no model or the
\* store has no chunk to embed; a result of the lexical scorer is a document,
\* a result of the vector path is an index entry with a snippet.
C15_FallbackWhileNothingToEmbed ==
    [][/\ embedding_model' = embedding_model
       /\ SearchReturnStep =>
             /\ path' = "lexical" <=> (embedding_model = <<>> \/ NoChunks)
             /\ path' \in {"lexical", "vector"}
             /\ (op' = "search_documents" /\ ret'.value # <<>>) =>
                   (path' = "vector" <=> "snippet" \in DOMAIN ret'.value[1])]_vars

\* With a model loaded, a search over the empty store was answered by the
\* lexical scorer.
C15_Witness ==
    /\ embedding_model # <<>>
    /\ pc = "idle"
    /\ op = "search_documents"
    /\ path = "lexical"
    /\ cache = <<>>
    /\ ret = Return(<<>>)

\* C16: no search ends with an exception: when the embedding model raises,
\* in the rebuild or on the query, the search returns the results of the
\* lexical scorer.
C16_SearchNeverRaises ==
    op = "search_documents" => ret.kind # "raise"

\* C17 as stated: the lexical scorer scores a document 3 when the query is
\* in the title, plus 2 when it is in the description, plus the number of
\* times it is in the content, the query and the text taken as they are.
C17_Original ==
    LexicalSearchReturned => LexicalAnswer(LAMBDA t : t)

\* C17: the same with the query and the text compared in lower case, the
\* occurrences in the content counted without overlap.
C17_LexicalScore ==
    LexicalSearchReturned => LexicalAnswer(lower)

\* One stored document has the query once in its title, not in its
\* description and, in lower case, twice in its content: it scores 0.5.
C17_Witness ==
    /\ LexicalSearchReturned
    /\ embedding_model = <<>>
    /\ Len(cache) = 1
    /\ args.query = <<"T">>
    /\ cache[1].value.title = <<"T">>
    /\ cache[1].value.description = <<>>
    /\ cache[1].value.content = <<"#"," ","T","\n","t">>
    /\ Len(ret.value) = 1
    /\ ret.value[1].similarity = 5

\* C18: fence integrity. The chunks are the input's lines cut at some
\* places; no cut has an open fence before it, so a heading-shaped line
\* inside an open fence starts no chunk, and every chunk holds an even
\* number of fence lines, the last one excepted when the input leaves its
\* last fence open.
C18_FenceIntegrity ==
    ChunkReturned =>
        LET lines == NonBlankLines(args.md)
            chunks == ret.value
            cut(k) == Len(ChunkLinesUpTo(chunks, k))
            own(k) == NonBlankLines(chunks[k].markdown)
        IN /\ ChunkLinesUpTo(chunks, Len(chunks)) = lines
           /\ \A k \in 1..(Len(chunks) - 1) : ~OpenAfter(lines, cut(k))
           /\ \A k \in 1..Len(chunks) :
                 (k < Len(chunks) \/ BalancedFences(args.md)) =>
                     ~OpenAfter(own(k), Len(own(k)))

\* A heading-shaped line stands inside a fence that is closed further down,
\* after a heading that did start a chunk.
C18_Witness ==
    /\ ChunkReturned
    /\ LET lines == NonBlankLines(args.md)
       IN \E h, i, j \in 1..Len(lines) :
             /\ h < i /\ i < j
             /\ is_heading(lines[h]) /\ ~OpenAfter(lines, h)
             /\ is_heading(lines[i]) /\ OpenAfter(lines, i)
             /\ IsFence(lines[j]) /\ ~OpenAfter(lines, j)
    /\ Len(ret.value) = 1

\* C19: chunk reconstruction. For an input with balanced fences the chunks'
\* markdown, concatenated in order, is the input up to whitespace, and the
\* non-blank lines of the chunks, in order, are the non-blank lines of the
\* input, each once.
C19_Reconstruction ==
    (ChunkReturned /\ BalancedFences(args.md)) =>
        /\ WithoutWhitespace(ChunksConcatenated(ret.value, Len(ret.value)))
             = WithoutWhitespace(args.md)
        /\ ChunkLinesUpTo(ret.value, Len(ret.value)) = NonBlankLines(args.md)

\* A cleaned input with a closed fence and a blank line is cut in two chunks.
C19_Witness ==
    /\ ChunkReturned
    /\ BalancedFences(args.md)
    /\ clean_markdown(args.md) = args.md
    /\ \E ln \in Range(splitlines(args.md)) : IsFence(ln)
    /\ \E ln \in Range(splitlines(args.md)) : ln = <<>>
    /\ Len(ret.value) = 2

\* C20: fetch_sitemap never raises and changes neither the store nor the
\* index; when the request fails, the status is not a success or the XML
\* does not parse, the list it returns is empty.
C20_SitemapNeverRaises ==
    [][ /\ pc = "w_sitemap" =>
             /\ ret'.kind # "raise"
             /\ pc' = "w_loop"
             /\ cache' = cache
             /\ index' = index
        /\ \A outcome \in SitemapOutcomes :
             (outcome.kind # "xml" /\ warmup_sitemap(outcome)) =>
                 sitemap' = <<>> /\ urls' = <<>>
      ]_vars

\* A warm-up over a stored page and a built index has had its sitemap
\* request answered and goes on with no URL to visit.
C20_Witness ==
    /\ op = "warmup"
    /\ pc = "w_loop"
    /\ ret.kind = "running"
    /\ sitemap = <<>>
    /\ cache # <<>>
    /\ embeddings # <<>>

\* C21 as stated: on a parsed sitemap fetch_sitemap returns the text of
\* every <loc> of the document, each once, in document order.
C21_Original ==
    [][ \A outcome \in SitemapOutcomes :
          (outcome.kind = "xml" /\ warmup_sitemap(outcome)) =>
              sitemap' = LocTextsOf(outcome.root, FALSE) ]_vars

\* C21: on a parsed sitemap fetch_sitemap returns, in document order, the
\* text of the first <loc> child of every <url> element that has one with
\* a text, each once; a <loc> elsewhere is not returned.
C21_UrlLocTexts ==
    [][ \A outcome \in SitemapOutcomes :
          (outcome.kind = "xml" /\ warmup_sitemap(outcome)) =>
              sitemap' = LocTextsOf(UrlElements(outcome.root), TRUE) ]_vars

\* The sitemap of three <loc> texts has given these three URLs in its order.
C21_Witness ==
    /\ op = "warmup"
    /\ pc = "w_loop"
    /\ sitemap = <<UrlDocs, UrlChangelog, UrlReference>>

\* C22: an ask that returns has had at most 3 results from search, on the
\* question, at the store and index it found; on no result it gives the
\* fixed answer with no source and confidence 0, otherwise one source
\* {title, url, relevance = similarity} per result in the results' order and
\* the highest similarity of the results as confidence.
C22_AskFromSearch ==
    [][ (pc = "idle" /\ op' = "answer_question" /\ ret'.kind = "return") =>
          \E o \in search_outcomes(args'.question, 3) :
              /\ o.ret.kind = "return"
              /\ Len(o.ret.value) <= 3
              /\ embeddings' = o.index.embeddings
              /\ documents' = o.index.documents
              /\ AnswerOn(ret'.value, o.ret.value) ]_vars

\* An ask has returned three sources of which the first is more relevant
\* than the last, with the relevance of the first as confidence.
C22_Witness ==
    /\ pc = "idle"
    /\ op = "answer_question"
    /\ ret.kind = "return"
    /\ Len(ret.value.sources) = 3
    /\ ret.value.sources[1].relevance > ret.value.sources[3].relevance
    /\ ret.value.confidence = ret.value.sources[1].relevance

\* C23: extract_title returns the trimmed text of the first of the first 10
\* lines that starts with "# ", the text of the first line starting with
\* "title:" only when there is no such line, and "Untitled" otherwise; for
\* the body whose "title: X" line precedes its "# Heading" line the title
\* is "Heading".
C23_HeadingBeforeFrontmatter ==
    (op = "extract_title" /\ ret.kind = "return") =>
        ret.value = TitleHeadingFirst(args.content)

\* C24: the candidates of a warm-up are three disjoint buckets: a URL that
\* the sitemap lists once is visited at most once in one warm-up.
C24_VisitedOnce ==
    (op = "warmup" /\ pc # "idle"
       /\ \A i, j \in 1..Len(sitemap) : sitemap[i] = sitemap[j] => i = j) =>
        /\ \A i, j \in 1..Len(urls) : urls[i] = urls[j] => i = j
        /\ \A i, j \in 1..(pos - 1) : urls[i] = urls[j] => i = j

\* C25: in a warm-up, a fetch that returns NotFound leaves the count of
\* successes as it is and the warm-up goes on with the next candidate; the
\* loop is left only when the count has reached limit or no candidate is
\* left, and as long as neither is the case the next step of the loop is
\* the visit of the next candidate.
C25_NotFoundGoesOn ==
    [][ (op = "warmup" /\ op' = "warmup") =>
          /\ (pc \in FetchStates /\ pc' = "w_loop" /\ last'.ret = Return(<<>>)) =>
                 seen' = seen /\ pos' = pos + 1 /\ urls' = urls /\ limit' = limit
          /\ (pc = "w_loop" /\ pc' = "idle") =>
                 seen >= limit \/ pos > Len(urls)
          /\ (pc = "w_loop" /\ pc' # "idle") =>
                 seen < limit /\ pos <= Len(urls) /\ FetchCallStep(urls[pos]) ]_vars

\* The first candidate was not found, nothing is counted, and the fetch of
\* the second candidate is under way.
C25_Witness ==
    /\ op = "warmup"
    /\ pc = "get_md"
    /\ pos = 2
    /\ seen = 0
    /\ last.url = urls[1]
    /\ last.ret = Return(<<>>)
    /\ url = urls[2]

\* C26: a warm-up returns out of its loop only, through the rebuild, however
\* the loop went; when it returns with the embedding model loaded and a
\* chunk in the store, the index has exactly one entry per chunk of the
\* documents then in the store.
C26_WarmupRebuilds ==
    [][ (op = "warmup" /\ pc # "idle" /\ pc' = "idle" /\ ret'.kind = "return") =>
          /\ pc = "w_loop"
          /\ (truthy(embedding_model') /\ ChunksOfStore(cache') # <<>>) =>
                 IndexCovers(cache', embeddings', documents') ]_vars

\* A warm-up whose last fetch was not found has returned: two documents in
\* the store, their two chunks in the index.
C26_Witness ==
    /\ pc = "idle"
    /\ op = "warmup"
    /\ ret = Return(<<>>)
    /\ last.ret = Return(<<>>)
    /\ embedding_model # <<>>
    /\ Len(cache) = 2
    /\ IndexCovers(cache, embeddings, documents)

\* C27: a search that finds an index (vectors assigned and at least one
\* entry) leaves it as it is; a search that finds none and returns, with the
\* embedding model loaded and a chunk in the store, has built the index of
\* all the chunks of the store; and whatever a search does to the index, it
\* leaves either the index it found or the index of all the chunks.
C27_RebuildWhenNoIndex ==
    [][ (pc = "idle" /\ op' \in {"search_documents", "answer_question"}) =>
          LET exists == embeddings # <<>> /\ Len(documents) > 0
              whole == IndexCovers(cache, embeddings', documents')
              kept == embeddings' = embeddings /\ documents' = documents
          IN /\ exists => kept
             /\ (~exists /\ ret'.kind = "return" /\ truthy(embedding_model)
                    /\ ChunksOfStore(cache) # <<>>) => whole
             /\ kept \/ whole ]_vars

\* A search has answered by vectors from the index of all four chunks of
\* the two stored documents.
C27_Witness ==
    /\ pc = "idle"
    /\ op = "search_documents"
    /\ ret.kind = "return"
    /\ path = "vector"
    /\ Len(cache) = 2
    /\ Len(documents) = 4
    /\ IndexCovers(cache, embeddings, documents)

\* C28: a fetch, also one that adds a document to the store, leaves the
\* index as it is; a search that finds an index answers from it and leaves
\* it as it is, so that no result of the vector path is a chunk of a stored
\* document that has no entry in the index.
C28_FetchKeepsIndex ==
    [][ /\ op' = "get_documentation_page" =>
             embeddings' = embeddings /\ documents' = documents
        /\ (pc = "idle" /\ op' \in {"search_documents", "answer_question"}
              /\ embeddings # <<>> /\ Len(documents) > 0) =>
             /\ embeddings' = embeddings /\ documents' = documents
             /\ (op' = "search_documents" /\ ret'.kind = "return") =>
                   \A k \in 1..Len(ret'.value) : ~NotIndexed(ret'.value[k].url) ]_vars

\* A search of limit 5 has answered by vectors while a stored document,
\* fetched after the index was built, has no entry in the index.
C28_Witness ==
    /\ pc = "idle"
    /\ op = "search_documents"
    /\ ret.kind = "return"
    /\ path = "vector"
    /\ args.limit = 5
    /\ Len(ret.value) >= 1
    /\ Len(cache) = 2
    /\ NotIndexed(cache[2].key)
    /\ cache[2].value.chunks # <<>>

\* C29: in a warm-up, the visit of a URL that is a key of the store is
\* counted as a success although it makes no request and adds nothing to
\* the store, whether the URL was stored by an earlier call or earlier in
\* this warm-up.
C29_CachedVisitCounts ==
    [][ (op = "warmup" /\ pc = "w_loop" /\ pos <= Len(urls) /\ seen < limit
          /\ urls[pos] \in cache_keys(cache)) =>
            /\ pc' = "w_loop"
            /\ seen' = seen + 1
            /\ pos' = pos + 1
            /\ gets' = <<>>
            /\ last'.sites = {}
            /\ cache' = cache ]_vars

\* A warm-up is at the end of its loop with its limit reached by a visit
\* that was answered from the store: it has added fewer documents than its
\* limit, and a candidate that is not in the store has not been visited.
C29_Witness ==
    /\ op = "warmup"
    /\ pc = "w_loop"
    /\ limit >= 1
    /\ seen = limit
    /\ last.sites = {}
    /\ Len(cache) - start_len < limit
    /\ \E k \in pos..Len(urls) :
          /\ urls[k] \notin cache_keys(cache)
          /\ \A j \in 1..(pos - 1) : urls[j] # urls[k]

\* C30: when two fetch calls on one URL that is not in the store overlap, at
\* most one of them makes a request, and a document that is in the store is
\* never replaced.
C30_SingleFlight ==
    [][ /\ ~ /\ pc' \in FetchStates /\ suspended'.pc \in FetchStates
              /\ url' = suspended'.url
              /\ gets' # <<>> /\ suspended'.gets # <<>>
        /\ \A k \in 1..Len(cache) : Len(cache') >= k /\ cache'[k] = cache[k] ]_vars

\* C31: the waits of a variant are those before its 2nd, 3rd and 4th
\* attempt, of 0.5, 1 and 2 time units (1, 2 and 4 halves): there is none
\* after the 4th attempt, and the waits of a variant add up to at most 3.5
\* time units.
C31_WaitsBetweenAttempts ==
    pc \in {"get_md", "sleep_md"} =>
        /\ Len(waits) <= 3
        /\ \A k \in 1..Len(waits) : waits[k] = 2 ^ (k - 1)
        /\ pc = "sleep_md" => attempt < 3

\* C32: a rebuild that returns, with the embedding model loaded and a chunk
\* to embed in the store, leaves an index of one entry per chunk of a stored
\* document whose embedding-input string is not empty, in the order of the
\* store and then of the chunks, each entry with the url, markdown_url and
\* title of its document and the heading of its chunk, and as many vectors.
C32_IndexEntries ==
    [][ (/\ pc' = "idle" /\ ret'.kind = "return"
         /\ \/ pc = "idle" /\ op' = "build_embeddings"
            \/ pc = "w_loop" /\ op' = "warmup"
         /\ truthy(embedding_model)
         /\ ChunksToEmbed(cache) # <<>>) =>
          LET chunks == ChunksToEmbed(cache)
          IN /\ Len(documents') = Len(chunks)
             /\ Len(embeddings'[1]) = Len(chunks)
             /\ \A i \in 1..Len(chunks) :
                   /\ documents'[i].url = chunks[i].url
                   /\ documents'[i].markdown_url = OwnerOf(cache, chunks[i].url).markdown_url
                   /\ documents'[i].title = OwnerOf(cache, chunks[i].url).title
                   /\ documents'[i].heading = chunks[i].chunk.heading ]_vars

\* An explicit rebuild has returned: two stored documents, of one chunk and
\* of two, and the three entries of the index in that order.
C32_Witness ==
    /\ pc = "idle"
    /\ op = "build_embeddings"
    /\ ret.kind = "return"
    /\ embedding_model # <<>>
    /\ Len(cache) = 2
    /\ Len(cache[1].value.chunks) = 1
    /\ Len(cache[2].value.chunks) = 2
    /\ Len(documents) = 3
    /\ documents[1].url = cache[1].key
    /\ documents[3].url = cache[2].key
    /\ documents[3].heading # documents[3].title

\* C33: of two results of equal similarity the one that comes first in the
\* array the search ranks (the index in the vector path, the store in the
\* lexical path) comes first in the ranking, and an entry of the index that
\* the limit has cut off while a result of its similarity was kept comes
\* after that result in the index.
C33_StableTies ==
    (pc = "idle" /\ op = "search_documents" /\ ret.kind = "return") =>
        LET res == ret.value
        IN /\ path = "lexical" =>
                 \A j, k \in 1..Len(res) :
                    (j < k /\ res[j].similarity = res[k].similarity) =>
                        PlaceInStore(res[j]) < PlaceInStore(res[k])
           /\ path = "vector" =>
                 /\ \A j, k \in 1..Len(res) :
                       (j < k /\ res[j].similarity = res[k].similarity) =>
                           PlaceIn(documents, res[j]) < PlaceIn(documents, res[k])
                 /\ \A i \in 1..Len(documents), k \in 1..Len(res) :
                       (/\ \A j \in 1..Len(res) : PlaceIn(documents, res[j]) # i
                        /\ 10 * dot(embeddings[1][i], encode(<<args.query>>)[1])
                              = res[k].similarity) =>
                           PlaceIn(documents, res[k]) < i

\* C34: a chunk has at most one heading line outside its fences; if it has
\* one, it is its first line and the chunk's heading is the text after the
\* marker; a chunk without one has an empty heading and is the first chunk,
\* before every heading, or begins with the marker of a heading without
\* text; no chunk is blank, and a blank input gives no chunk. The input
\* "# Heading\nBody text" gives one chunk of heading "Heading".
C34_OneHeadingPerChunk ==
    ChunkReturned =>
        LET chunks == ret.value
        IN /\ \A k \in 1..Len(chunks) :
                 LET text == chunks[k].markdown
                     first == splitlines(text)[1]
                 IN /\ strip(text) # <<>>
                    /\ Cardinality(HeadingLinesOf(text)) <= 1
                    /\ HeadingLinesOf(text) # {} =>
                          /\ HeadingLinesOf(text) = {1}
                          /\ chunks[k].heading
                                = strip(SubSeq(first, HeadingLevel(first) + 1, Len(first)))
                    /\ HeadingLinesOf(text) = {} =>
                          /\ chunks[k].heading = <<>>
                          /\ k = 1 \/ BareMarker(first)
                          /\ (k = 1 /\ ~BareMarker(first)) =>
                                \A j \in 2..Len(chunks) :
                                   HeadingLinesOf(chunks[j].markdown) = {1}
                                       \/ BareMarker(splitlines(chunks[j].markdown)[1])
           /\ strip(args.md) = <<>> => chunks = <<>>
           /\ args.md = MarkdownHeadingBody =>
                 /\ Len(chunks) = 1
                 /\ chunks[1].heading = <<"H","e","a","d","i","n","g">>

\* A text before the first heading, a heading with a heading-shaped line
\* inside its fence: two chunks, the first of empty heading.
\* The heading without text that ends the text leaves a chunk "#".
C34_BareWitness ==
    /\ ChunkReturned
    /\ Len(ret.value) = 2
    /\ ret.value[2].markdown = <<"#">>
    /\ ret.value[2].heading = <<>>

C34_Witness ==
    /\ ChunkReturned
    /\ Len(ret.value) = 2
    /\ ret.value[1].heading = <<>>
    /\ ret.value[2].heading = <<"T">>
    /\ Len(splitlines(ret.value[2].markdown)) = 3
    /\ \E i \in 2..3 : HeadingLevel(splitlines(ret.value[2].markdown)[i]) > 0

\* C35: a line starting with "description:" among the first 20 lines gives
\* the description, also behind a level-2 heading with a paragraph; without
\* such a line the description is the first paragraph line within the 4
\* lines after a level-2 heading (not the first line of the body), cut to
\* 200 characters and followed by "..."; otherwise it is empty.
C35_DescriptionLineWins ==
    DescriptionReturned =>
        LET lines == BodyLines(args.content)
        IN IF DescriptionLinesOf(lines) # {}
           THEN ret.value
                  = strip(SubSeq(lines[Least(DescriptionLinesOf(lines))], 13,
                                 Len(lines[Least(DescriptionLinesOf(lines))])))
           ELSE IF SubheadingsOf(lines) # {}
           THEN LET para == lines[Least(ParagraphsAfter(lines, Least(SubheadingsOf(lines))))]
                IN ret.value
                     = SubSeq(strip(para), 1, IF Len(strip(para)) < 200 THEN Len(strip(para)) ELSE 200)
                         \o <<".", ".", ".">>
           ELSE ret.value = <<>>

\* The rule with the order of the lines: the description comes from the
\* first line that is a "description:" line or a level-2 heading with a
\* paragraph, whichever of the two kinds it is.
C35_FirstMatchWins ==
    DescriptionReturned =>
        LET lines == BodyLines(args.content)
            marks == DescriptionLinesOf(lines) \cup SubheadingsOf(lines)
        IN IF marks = {}
           THEN ret.value = <<>>
           ELSE IF Least(marks) \in DescriptionLinesOf(lines)
           THEN ret.value = strip(SubSeq(lines[Least(marks)], 13, Len(lines[Least(marks)])))
           ELSE LET para == lines[Least(ParagraphsAfter(lines, Least(marks)))]
                IN ret.value
                     = SubSeq(strip(para), 1, IF Len(strip(para)) < 200 THEN Len(strip(para)) ELSE 200)
                         \o <<".", ".", ".">>

\* A paragraph behind a level-2 heading is returned although a
\* "description:" line follows.
C35_ParagraphBeforeDescription ==
    /\ DescriptionReturned
    /\ DescriptionLinesOf(BodyLines(args.content)) # {}
    /\ ret.value = <<"t", ".", ".", ".">>

\* C36: a tool call never ends with an exception: it returns a text
\* response, "Unknown tool: <name>" for a name that is no tool, and a text
\* that starts with "Error: " when an argument is missing or the core has
\* raised; a call with an unknown name leaves the store, the index and
\* every operation as they are.
C36_NeverRaises ==
    [][ ToolReturns =>
          /\ tool'.response.kind = "text"
          /\ tool'.name \notin ToolNames =>
                /\ tool'.response.form = "unknown"
                /\ tool'.response.value = UnknownPrefix \o tool'.name
                /\ UNCHANGED <<cache, index, pc, path, last, fetch_locals, warmup_locals>>
          /\ (tool'.name \in ToolNames
                /\ (MissingArgument(tool') \/ (op' # "none" /\ ret'.kind = "raise"))) =>
                /\ tool'.response.form = "error"
                /\ startswith(tool'.response.value, ErrorPrefix)
          /\ (tool'.name \in ToolNames /\ ~MissingArgument(tool') /\ ret'.kind = "return") =>
                tool'.response.form \notin {"error", "unknown"}
      ]_vars

\* An ask call whose warm-up ended with an exception has returned the error
\* text.
C36_Witness ==
    /\ tool.stage = "done"
    /\ tool.name = AskTool
    /\ op = "warmup"
    /\ ret.kind = "raise"
    /\ tool.response = text_response("error", ErrorPrefix)

\* C37: a warm-up begins only in a search or ask tool call, with limit 120
\* and an empty store; the query of a search or ask call runs without a
\* warm-up before it only when the store was not empty, and otherwise
\* after the warm-up of this call has returned.
C37_WarmupWhenEmpty ==
    [][ /\ WarmupBegins =>
              /\ tool.stage = "called"
              /\ tool.name \in {SearchTool, AskTool}
              /\ cache = <<>>
              /\ limit' = 120
        /\ QueryRuns =>
              /\ tool.stage = "called"
              /\ \/ op = "none" /\ cache # <<>>
                 \/ op = "warmup" /\ ret.kind = "return"
      ]_vars

\* The warm-up of an ask call has visited a page that could not be fetched,
\* the store is empty, and an earlier call has left its answer's scorer:
\* the warm-up is not the first.
C37_Witness ==
    /\ tool.stage = "called"
    /\ tool.name = AskTool
    /\ op = "warmup"
    /\ pc = "w_loop"
    /\ pos > 1
    /\ limit = 120
    /\ cache = <<>>
    /\ path = "lexical"

\* C39: in the response of list_voiceflow_topics, every URL of the sitemap
\* with a path segment other than "docs" is in exactly one group, the one
\* named by the first such segment.
C39_GroupedByFirstSegment ==
    TopicsReturned =>
        \A k \in 1..Len(ret.value) :
           path_parts(ret.value[k]) # <<>> =>
              GroupsOf(tool.response.value, ret.value[k]) = { path_parts(ret.value[k])[1] }

\* What the grouping does: a URL with two or more such segments is in the
\* group of the first, a URL with one is in the group "general", a URL with
\* none is in no group.
C39_GroupedOrGeneral ==
    TopicsReturned =>
        \A k \in 1..Len(ret.value) :
           GroupsOf(tool.response.value, ret.value[k])
             = IF path_parts(ret.value[k]) = <<>> THEN {}
               ELSE IF Len(path_parts(ret.value[k])) = 1 THEN { General }
               ELSE { path_parts(ret.value[k])[1] }

\* /docs/b is in the group "general", /docs/b/x in the group "b".
C39_GeneralGroup ==
    /\ TopicsReturned
    /\ DOMAIN tool.response.value = { General, <<"b">>, <<"c","h","a","n","g","e","l","o","g">> }
    /\ tool.response.value[General] = << UrlDocs >>
    /\ tool.response.value[<<"b">>] = << UrlDocsNested >>

\* C38: a fetch call sends at most 8 GET requests, at most 4 to each
\* variant; a warm-up fetches the candidate it is at and goes to the next
\* one when that fetch call has ended, so it calls fetch at most once per
\* entry of its candidate list; and, every request and sleep returning,
\* every operation that runs ends, whatever the server answers.
C38_Terminates ==
    /\ [](/\ Len(gets) <= 8
          /\ \A site \in {"md", "orig"} :
                Cardinality({ k \in 1..Len(gets) : gets[k].site = site }) <= 4)
    /\ []((op = "warmup" /\ pc \in FetchStates) => (pos <= Len(urls) /\ url = urls[pos]))
    /\ [][ (op = "warmup" /\ pc \in {"w_loop"} \cup FetchStates /\ pc' # "idle") =>
              /\ urls' = urls
              /\ pos' = IF pc' = "w_loop" THEN pos + 1 ELSE pos ]_vars
    /\ (pc # "idle") ~> (pc = "idle")

\* A warm-up at its second candidate, whose fetch has sent its 8 requests,
\* each answered with a rate limit or a server error.
C38_Witness ==
    /\ op = "warmup"
    /\ pos = 2
    /\ pc = "sleep_orig"
    /\ attempt = 3
    /\ Len(gets) = 8
    /\ lastStatus = 500

(***************************************************************************)
(* The specifications                                                      *)
(***************************************************************************)
Init ==
    /\ cache = <<>>
    /\ embeddings = <<>>
    /\ documents = <<>>
    /\ embedding_model \in {<<>>, <<ModelName>>}
    /\ pc = "idle"
    /\ op = "none"
    /\ args = NoArgs
    /\ path = "none"
    /\ url = <<>>
    /\ attempt = 0
    /\ r = <<>>
    /\ body = <<>>
    /\ final_url = <<>>
    /\ sitemap = <<>>
    /\ urls = <<>>
    /\ pos = 1
    /\ seen = 0
    /\ limit = 0
    /\ start_len = 0
    /\ ret = Return(<<>>)
    /\ gets = <<>>
    /\ lastStatus = 0
    /\ waits = <<>>
    /\ last = [url |-> <<>>, ret |-> Return(<<>>), sites |-> {}, r |-> <<>>, from |-> <<>>]
    /\ suspended = NoTask
    /\ tool = NoCall

\* Pages fetched on demand from a server that can answer anything
Next ==
    \/ \E u \in PageUrls : get_documentation_page(u)
    \/ \E resp \in Responses : _get(resp)
    \/ _get_raises
    \/ sleep

Spec == Init /\ [][Next]_vars

\* On-demand fetches and warm-up crawls
NextWarm ==
    \/ \E u \in WarmUrls : get_documentation_page(u)
    \/ \E resp \in WarmResponses : _get(resp)
    \/ _get_raises
    \/ sleep
    \/ \E lim \in 0..MaxLimit : warmup(lim)
    \/ \E outcome \in SitemapOutcomes : warmup_sitemap(outcome)
    \/ warmup_fetch
    \/ \E raises \in BOOLEAN : warmup_build(raises)

SpecWarm == Init /\ [][NextWarm]_vars

\* Every operation of the engine, one at a time, against a server that
\* never limits the rate
NextEngine ==
    \/ \E u \in EngineUrls : get_documentation_page(u)
    \/ \E resp \in EngineResponses : _get(resp)
    \/ _get_raises
    \/ \E lim \in 0..MaxLimit : warmup(lim)
    \/ \E outcome \in EngineSitemaps : warmup_sitemap(outcome)
    \/ warmup_fetch
    \/ \E raises \in BOOLEAN : warmup_build(raises)
    \/ \E raises \in BOOLEAN : build_embeddings(raises)
    \/ \E query \in Queries, lim \in Limits : search_documents(query, lim)
    \/ \E question \in Queries : answer_question(question)

SpecEngine == Init /\ [][NextEngine]_vars

\* Warm-up crawls, and pages on demand, against a server that has every page
NextOrder ==
    \/ \E u \in OrderUrls : get_documentation_page(u)
    \/ \E resp \in OrderResponses : _get(resp)
    \/ \E lim \in 0..MaxLimit : warmup(lim)
    \/ \E outcome \in OrderSitemaps : warmup_sitemap(outcome)
    \/ warmup_fetch
    \/ \E raises \in BOOLEAN : warmup_build(raises)

SpecOrder == Init /\ [][NextOrder]_vars

\* chunk_markdown alone, on every text of Markdowns
InitChunk ==
    /\ cache = <<>>
    /\ embeddings = <<>>
    /\ documents = <<>>
    /\ embedding_model \in {<<>>, <<ModelName>>}
    /\ pc = "idle"
    /\ op = "none"
    /\ args \in { [md |-> md] : md \in Markdowns }
    /\ path = "none"
    /\ url = <<>>
    /\ attempt = 0
    /\ r = <<>>
    /\ body = <<>>
    /\ final_url = <<>>
    /\ sitemap = <<>>
    /\ urls = <<>>
    /\ pos = 1
    /\ seen = 0
    /\ limit = 0
    /\ start_len = 0
    /\ ret = Running
    /\ gets = <<>>
    /\ lastStatus = 0
    /\ waits = <<>>
    /\ last = [url |-> <<>>, ret |-> Return(<<>>), sites |-> {}, r |-> <<>>, from |-> <<>>]
    /\ suspended = NoTask
    /\ tool = NoCall

NextChunk ==
    \E md \in Markdowns : chunk(md)

SpecChunk == InitChunk /\ [][NextChunk]_vars

\* extract_title alone, on every body of Contents
InitTitle ==
    /\ cache = <<>>
    /\ embeddings = <<>>
    /\ documents = <<>>
    /\ embedding_model \in {<<>>, <<ModelName>>}
    /\ pc = "idle"
    /\ op = "none"
    /\ args \in { [content |-> content] : content \in Contents }
    /\ path = "none"
    /\ url = <<>>
    /\ attempt = 0
    /\ r = <<>>
    /\ body = <<>>
    /\ final_url = <<>>
    /\ sitemap = <<>>
    /\ urls = <<>>
    /\ pos = 1
    /\ seen = 0
    /\ limit = 0
    /\ start_len = 0
    /\ ret = Running
    /\ gets = <<>>
    /\ lastStatus = 0
    /\ waits = <<>>
    /\ last = [url |-> <<>>, ret |-> Return(<<>>), sites |-> {}, r |-> <<>>, from |-> <<>>]
    /\ suspended = NoTask
    /\ tool = NoCall

NextTitle ==
    \E content \in Contents : get_title(content)

SpecTitle == InitTitle /\ [][NextTitle]_vars

\* extract_description alone, on every body of Descriptions
InitDescription ==
    /\ cache = <<>>
    /\ embeddings = <<>>
    /\ documents = <<>>
    /\ embedding_model \in {<<>>, <<ModelName>>}
    /\ pc = "idle"
    /\ op = "none"
    /\ args \in { [content |-> content] : content \in Descriptions }
    /\ path = "none"
    /\ url = <<>>
    /\ attempt = 0
    /\ r = <<>>
    /\ body = <<>>
    /\ final_url = <<>>
    /\ sitemap = <<>>
    /\ urls = <<>>
    /\ pos = 1
    /\ seen = 0
    /\ limit = 0
    /\ start_len = 0
    /\ ret = Running
    /\ gets = <<>>
    /\ lastStatus = 0
    /\ waits = <<>>
    /\ last = [url |-> <<>>, ret |-> Return(<<>>), sites |-> {}, r |-> <<>>, from |-> <<>>]
    /\ suspended = NoTask
    /\ tool = NoCall

NextDescription ==
    \E content \in Descriptions : get_description(content)

SpecDescription == InitDescription /\ [][NextDescription]_vars

\* Tool calls, one at a time, and the steps of the operations they run
NextTools ==
    \/ \E name \in CalledNames, arguments \in ArgumentMaps : handle_call_tool(name, arguments)
    \/ call_warmup
    \/ call_search
    \/ call_ask
    \/ call_page
    \/ \E outcome \in TopicSitemaps : list_topics(outcome)
    \/ respond
    \/ \E resp \in ToolResponses : _get(resp)
    \/ _get_raises
    \/ \E outcome \in ToolSitemaps : warmup_sitemap(outcome)
    \/ warmup_fetch
    \/ \E raises \in BOOLEAN : warmup_build(raises)

SpecTools == Init /\ [][NextTools]_vars

\* Fetches and warm-ups whose requests and sleeps all return: every request
\* http_client.get sends is answered, or fails, after a while (lines 76,
\* 104), asyncio.sleep returns (line 106), and the event loop goes on
\* running the code of the one task there is (lines 310-316). Each of the
\* five conditions is the weak fairness of one step; for the answer to a
\* page request and for the end of the warm-up, WF_vars(A) is written as
\* what it means, []<>(~ENABLED <<A>>_vars) \/ []<><<A>>_vars, with the
\* guard of the step for ENABLED <<A>>_vars (both steps change pc or gets
\* whenever their guard holds).
NextLive ==
    \/ \E u \in LiveUrls : get_documentation_page(u)
    \/ \E resp \in LiveResponses : _get(resp)
    \/ _get_raises
    \/ sleep
    \/ \E lim \in 0..MaxLimit : warmup(lim)
    \/ \E outcome \in ToolSitemaps : warmup_sitemap(outcome)
    \/ warmup_fetch
    \/ \E raises \in BOOLEAN : warmup_build(raises)

SpecLive ==
    /\ Init
    /\ [][NextLive]_vars
    /\ \/ []<>(pc \notin {"get_md", "get_orig"})
       \/ []<><<\E resp \in LiveResponses : _get(resp)>>_vars
    /\ WF_vars(sleep)
    /\ WF_vars(\E outcome \in ToolSitemaps : warmup_sitemap(outcome))
    /\ WF_vars(warmup_fetch)
    /\ \/ []<>(~(pc = "w_loop" /\ (pos > Len(urls) \/ seen >= limit)))
       \/ []<><<\E raises \in BOOLEAN : warmup_build(raises)>>_vars

\* Two tasks of the event loop that fetch pages on demand
NextOverlap ==
    \/ \E u \in OverlapUrls : get_documentation_page(u)
    \/ \E resp \in OverlapResponses : _get(resp)
    \/ switch

SpecOverlap == Init /\ [][NextOverlap]_vars
====
